---------------------------- MODULE Spec2Model ----------------------------
(***************************************************************************)
(* Model of the hybrid recommendation pipeline of                          *)
(* src/server/spotifyService.ts (class SpotifyService): candidate          *)
(* generation, genre enrichment, scoring and per-artist selection in       *)
(* buildHybridRecommendations, and the TTL caches read by                  *)
(* resolveArtistSeeds, getClientCredentialsToken and getUserTopData.       *)
(*                                                                         *)
(* Strings are sequences of code points, so that toLowerCase and           *)
(* String.includes are computed and not assumed.  Scores are kept in       *)
(* thousandths (1.5 is 1500), which makes every term of the score an       *)
(* integer.  Catalog ids are positive integers; 0 is a missing id.         *)
(***************************************************************************)
EXTENDS Integers, Sequences, FiniteSets, TLC

(***************************************************************************)
(* Generic helpers                                                         *)
(***************************************************************************)
Min(a, b) == IF a <= b THEN a ELSE b

Max(a, b) == IF a >= b THEN a ELSE b

Abs(a) == IF a < 0 THEN -a ELSE a

Range(s) == {s[i] : i \in 1..Len(s)}

NoDup(s) == \A i, j \in 1..Len(s) : i # j => s[i] # s[j]

\* Array.from(new Set(s)): the first occurrence of every element, in order.
RECURSIVE Dedup(_)
Dedup(s) ==
  IF s = <<>> THEN <<>>
  ELSE LET f == Dedup(SubSeq(s, 1, Len(s) - 1))
       IN IF s[Len(s)] \in Range(f) THEN f ELSE Append(f, s[Len(s)])

\* Array.prototype.slice(0, n)
Take(s, n) == SubSeq(s, 1, Min(Len(s), n))

RECURSIVE Flatten(_)
Flatten(ss) == IF ss = <<>> THEN <<>> ELSE Head(ss) \o Flatten(Tail(ss))

(***************************************************************************)
(* Strings                                                                 *)
(***************************************************************************)
\* String.prototype.toLowerCase on the code points the model uses (ASCII).
LowerChar(c) == IF c >= 65 /\ c <= 90 THEN c + 32 ELSE c

ToLowerCase(s) == [i \in 1..Len(s) |-> LowerChar(s[i])]

\* String.prototype.includes
Includes(s, sub) ==
  \E i \in 0..(Len(s) - Len(sub)) : SubSeq(s, i + 1, i + Len(sub)) = sub

IsSpace(c) == c = 32

RECURSIVE TrimLeft(_)
TrimLeft(s) == IF s # <<>> /\ IsSpace(Head(s)) THEN TrimLeft(Tail(s)) ELSE s

RECURSIVE TrimRight(_)
TrimRight(s) ==
  IF s # <<>> /\ IsSpace(s[Len(s)]) THEN TrimRight(SubSeq(s, 1, Len(s) - 1)) ELSE s

Trim(s) == TrimRight(TrimLeft(s))

\* normalize('NFKD') on the code points the model uses: e-acute (233)
\* decomposes into e (101) and the combining acute accent (769), and a
\* Hangul syllable (44032..55203) into its leading consonant, vowel and,
\* if it has one, trailing consonant.
NFKDChar(c) ==
  IF c = 233 THEN <<101, 769>>
  ELSE IF c >= 44032 /\ c <= 55203
  THEN LET s == c - 44032
           l == 4352 + (s \div 588)
           v == 4449 + ((s % 588) \div 28)
           t == s % 28
       IN IF t = 0 THEN <<l, v>> ELSE <<l, v, 4519 + t>>
  ELSE <<c>>

NFKD(s) == Flatten([i \in 1..Len(s) |-> NFKDChar(s[i])])

\* replace(/[\u0300-\u036f]/g, ''): the combining marks are dropped.
StripMarks(s) == SelectSeq(s, LAMBDA c : ~(c >= 768 /\ c <= 879))

sanitizeGenre(value) == Trim(StripMarks(NFKD(ToLowerCase(value))))

(***************************************************************************)
(* Tracks                                                                  *)
(*                                                                         *)
(* A catalog item is what the catalog answers with: id, name, a list of    *)
(* artists {id, name} (or no artists field at all), release year and       *)
(* popularity.  A Track is what the service keeps of it.  releaseYear 0    *)
(* and popularity -1 stand for undefined.                                  *)
(***************************************************************************)
UnknownArtist == <<85, 110, 107, 110, 111, 119, 110, 32, 65, 114, 116, 105, 115, 116>>

UnknownKey == <<117, 110, 107, 110, 111, 119, 110>>

Item(id, name, artists, year, pop) ==
  [id |-> id, name |-> name, artists |-> artists, noArtists |-> FALSE,
   year |-> year, popularity |-> pop]

Artist(id, name) == [id |-> id, name |-> name]

ArtistNames(item) ==
  IF item.noArtists THEN <<UnknownArtist>>
  ELSE [i \in 1..Len(item.artists) |-> item.artists[i].name]

ArtistIdsOf(item) ==
  IF item.noArtists THEN <<>>
  ELSE SelectSeq([i \in 1..Len(item.artists) |-> item.artists[i].id],
                 LAMBDA a : a # 0)

\* The Track built from an artist's top track: artist ids, release year and
\* popularity are kept.
TopTrackToTrack(item) ==
  [id |-> item.id, name |-> item.name, artists |-> ArtistNames(item),
   artistIds |-> ArtistIdsOf(item), releaseYear |-> item.year,
   popularity |-> item.popularity]

\* The Track built from a search hit: artist names only.
SearchItemToTrack(item) ==
  [id |-> item.id, name |-> item.name, artists |-> ArtistNames(item),
   artistIds |-> <<>>, releaseYear |-> 0, popularity |-> -1]

Ids(tracks) == [i \in 1..Len(tracks) |-> tracks[i].id]

(***************************************************************************)
(* Merging catalog answers into a pool keyed by id                         *)
(***************************************************************************)
\* The loop over an answer's items: an item without an id or with an id the
\* map holds is skipped; the loop breaks once the map holds `cap` tracks.
\* `tracks` are the answer's items, each as the Track the loop would store.
\* The same loop without the `unique.has(id)` test.
RECURSIVE MergeTracksNoHas(_, _, _)
MergeTracksNoHas(pool, tracks, cap) ==
  IF tracks = <<>> THEN pool
  ELSE LET t == Head(tracks)
       IN IF t.id = 0
          THEN MergeTracksNoHas(pool, Tail(tracks), cap)
          ELSE LET p == Append(pool, t)
               IN IF Len(p) >= cap THEN p
                  ELSE MergeTracksNoHas(p, Tail(tracks), cap)

\* The merge without its size test: every new track of the answer is added.
RECURSIVE MergeTracksNoCap(_, _, _)
MergeTracksNoCap(pool, tracks, cap) ==
  IF tracks = <<>> THEN pool
  ELSE LET t == Head(tracks)
       IN IF t.id = 0 \/ t.id \in Range(Ids(pool))
          THEN MergeTracksNoCap(pool, Tail(tracks), cap)
          ELSE MergeTracksNoCap(Append(pool, t), Tail(tracks), cap)

RECURSIVE MergeTracks(_, _, _)
MergeTracks(pool, tracks, cap) ==
  IF tracks = <<>> THEN pool
  ELSE LET t == Head(tracks)
       IN IF t.id = 0 \/ t.id \in Range(Ids(pool))
          THEN MergeTracks(pool, Tail(tracks), cap)
          ELSE LET p == Append(pool, t)
               IN IF Len(p) >= cap THEN p
                  ELSE MergeTracks(p, Tail(tracks), cap)

(***************************************************************************)
(* Scoring (thousandths)                                                   *)
(***************************************************************************)
ROCK_HINTS ==
  { <<114, 111, 99, 107>>,                                   \* rock
    <<97, 108, 116, 45, 114, 111, 99, 107>>,                 \* alt-rock
    <<97, 108, 116, 101, 114, 110, 97, 116, 105, 118, 101, 32, 114, 111, 99, 107>>,
                                                             \* alternative rock
    <<105, 110, 100, 105, 101, 45, 114, 111, 99, 107>>,      \* indie-rock
    <<104, 97, 114, 100, 32, 114, 111, 99, 107>>,            \* hard rock
    <<99, 108, 97, 115, 115, 105, 99, 32, 114, 111, 99, 107>>,  \* classic rock
    <<112, 111, 115, 116, 45, 114, 111, 99, 107>>,           \* post-rock
    <<103, 97, 114, 97, 103, 101, 32, 114, 111, 99, 107>>,   \* garage rock
    <<103, 114, 117, 110, 103, 101>>,                        \* grunge
    <<98, 114, 105, 116, 112, 111, 112>>,                    \* britpop
    <<112, 111, 112, 32, 114, 111, 99, 107>>,                \* pop rock
    <<112, 117, 110, 107>>,                                  \* punk
    <<101, 109, 111>>,                                       \* emo
    <<110, 117, 32, 109, 101, 116, 97, 108>>,                \* nu metal
    <<109, 101, 116, 97, 108>>,                              \* metal
    <<115, 116, 111, 110, 101, 114, 32, 114, 111, 99, 107>>, \* stoner rock
    <<109, 97, 116, 104, 32, 114, 111, 99, 107>>,            \* math rock
    <<115, 104, 111, 101, 103, 97, 122, 101>> }              \* shoegaze

\* gmap is artistGenresMap: a function from the artist ids it has an entry
\* for to the list of that artist's genre tags; a missing entry is [].
GenresOf(gmap, id) == IF id \in DOMAIN gmap THEN gmap[id] ELSE <<>>

isRockish(ids, gmap) ==
  \E i \in 1..Len(ids) :
    \E j \in 1..Len(GenresOf(gmap, ids[i])) :
      \E h \in ROCK_HINTS : Includes(ToLowerCase(GenresOf(gmap, ids[i])[j]), h)

\* kwSet: the keywords in lower case, each once.
KwSet(keywords) == Dedup([i \in 1..Len(keywords) |-> ToLowerCase(keywords[i])])

KeywordHit(t, kw) ==
  IF kw = <<>> THEN 0
  ELSE (IF Includes(ToLowerCase(t.name), kw) THEN 800 ELSE 0)
       + (IF \E a \in 1..Len(t.artists) : Includes(ToLowerCase(t.artists[a]), kw)
          THEN 600 ELSE 0)

RECURSIVE SumKeywordHits(_, _)
SumKeywordHits(t, kws) ==
  IF kws = <<>> THEN 0 ELSE KeywordHit(t, Head(kws)) + SumKeywordHits(t, Tail(kws))

keywordScore(t, keywords) == SumKeywordHits(t, KwSet(keywords))

\* yearRange is [has |-> FALSE] for null, else [has |-> TRUE, from, to].
NoYearRange == [has |-> FALSE, from |-> 0, to |-> 0]

YearRange(from, to) == [has |-> TRUE, from |-> from, to |-> to]

\* 1.0 - dist / 20 is 1000 - 50 * dist thousandths.
yearScore(t, yearRange) ==
  IF ~yearRange.has THEN 200
  ELSE IF t.releaseYear = 0 THEN 0
  ELSE IF t.releaseYear >= yearRange.from /\ t.releaseYear <= yearRange.to THEN 1200
  ELSE LET dist == Min(Abs(t.releaseYear - yearRange.from),
                       Abs(t.releaseYear - yearRange.to))
       IN Max(0, 1000 - 50 * dist)

genreScore(t, gmap) == IF isRockish(t.artistIds, gmap) THEN 1500 ELSE -700

\* ((t.popularity ?? 50) / 100) * 0.6
popularityScore(t) == 6 * (IF t.popularity = -1 THEN 50 ELSE t.popularity)

\* Math.floor(limit * 0.6) and Math.floor(limit * 0.7) on IEEE doubles, for
\* the integers 1..100: the product is exact to the floor except 90 * 0.7,
\* which is 62.99999999999999.
FloorSixTenths(limit) == (6 * limit) \div 10

\* "Fewer than 70%" taken exactly: the least integer that is at least 0.7 * limit.
CeilSevenTenths(limit) == (7 * limit + 9) \div 10

FloorSevenTenths(limit) == IF limit = 90 THEN 62 ELSE (7 * limit) \div 10

\* The pre-filter without its minimum of 10 matching candidates.
PreFilterNoMinimum(candidates, gmap, limit) ==
  LET rockCandidates == SelectSeq(candidates, LAMBDA t : isRockish(t.artistIds, gmap))
  IN IF Len(rockCandidates) >= FloorSixTenths(limit)
     THEN rockCandidates ELSE candidates

\* The pre-filter: the rockish candidates alone, when there are enough.
PreFilter(candidates, gmap, limit) ==
  LET rockCandidates == SelectSeq(candidates, LAMBDA t : isRockish(t.artistIds, gmap))
  IN IF Len(rockCandidates) >= Max(10, FloorSixTenths(limit))
     THEN rockCandidates ELSE candidates

\* The composite score of filtered[i] (i from 1; the code's index is i - 1).
Score(filtered, i, gmap, yearRange, keywords) ==
  genreScore(filtered[i], gmap) + yearScore(filtered[i], yearRange)
  + keywordScore(filtered[i], keywords) + popularityScore(filtered[i])
  + (Len(filtered) - (i - 1))

\* Array.prototype.sort with (a, b) => b.score - a.score: stable, descending.
\* x goes after every element whose score is at least its own.
RECURSIVE InsertByScore(_, _)
InsertByScore(sorted, x) ==
  IF sorted = <<>> THEN <<x>>
  ELSE IF Head(sorted).score >= x.score
       THEN <<Head(sorted)>> \o InsertByScore(Tail(sorted), x)
       ELSE <<x>> \o sorted

RECURSIVE SortByScore(_)
SortByScore(xs) ==
  IF xs = <<>> THEN <<>>
  ELSE InsertByScore(SortByScore(SubSeq(xs, 1, Len(xs) - 1)), xs[Len(xs)])

Scored(filtered, gmap, yearRange, keywords) ==
  LET withScore == [i \in 1..Len(filtered) |->
                      [t |-> filtered[i],
                       score |-> Score(filtered, i, gmap, yearRange, keywords)]]
      sorted == SortByScore(withScore)
  IN [i \in 1..Len(sorted) |-> sorted[i].t]

(***************************************************************************)
(* Selection under a per-artist cap                                        *)
(***************************************************************************)
IdKey(id) == [kind |-> "id", id |-> id, name |-> <<>>]

NameKey(name) == [kind |-> "name", id |-> 0, name |-> name]

\* const key = ids[0] || (t.artists?.[0] || 'unknown')
CapKey(t) ==
  IF Len(t.artistIds) > 0 THEN IdKey(t.artistIds[1])
  ELSE IF Len(t.artists) > 0 /\ t.artists[1] # <<>> THEN NameKey(t.artists[1])
  ELSE NameKey(UnknownKey)

\* counts.get(key) || 0, for the tracks picked so far
CountOf(out, key) == Cardinality({j \in 1..Len(out) : CapKey(out[j]) = key})

RECURSIVE PickLoop(_, _, _, _)
PickLoop(scored, out, cap, limit) ==
  IF scored = <<>> \/ Len(out) >= limit THEN out
  ELSE LET t == Head(scored)
       IN IF t.id \in Range(Ids(out)) \/ CountOf(out, CapKey(t)) >= cap
          THEN PickLoop(Tail(scored), out, cap, limit)
          ELSE PickLoop(Tail(scored), Append(out, t), cap, limit)

\* The loop stopping one track early.
pickWithCapOffByOne(scored, cap, limit) == PickLoop(scored, <<>>, cap, limit - 1)

pickWithCap(scored, cap, limit) == PickLoop(scored, <<>>, cap, limit)

\* The selection with neither the loop's limit test nor the final slice.
FinalPickUnbounded(scored, limit) ==
  LET primary == pickWithCap(scored, 1, Len(scored))
  IN IF Len(primary) < (7 * limit) \div 10
     THEN [tracks |-> pickWithCap(scored, 2, Len(scored)), relaxed |-> TRUE]
     ELSE [tracks |-> primary, relaxed |-> FALSE]

\* finalPick and whether the relaxed pass produced it.
FinalPick(scored, limit) ==
  LET primary == pickWithCap(scored, 1, limit)
  IN IF Len(primary) < FloorSevenTenths(limit)
     THEN [tracks |-> Take(pickWithCap(scored, 2, limit), limit), relaxed |-> TRUE]
     ELSE [tracks |-> Take(primary, limit), relaxed |-> FALSE]

(***************************************************************************)
(* The catalog the model answers from                                      *)
(***************************************************************************)
NameAb == <<65, 98>>

NameIU == <<73, 85>>

NameCd == <<67, 100>>

NameEf == <<69, 102>>

TitleLove == <<76, 111, 118, 101>>

TitleAb == <<97, 98>>

TitleX == <<120>>

NullItem == Item(0, <<>>, <<>>, 0, -1)

T1 == Item(1, TitleLove, <<Artist(1, NameAb)>>, 1995, 80)

T2 == Item(2, TitleAb, <<Artist(1, NameAb)>>, 2001, 50)

T3 == Item(3, TitleX, <<Artist(1, NameAb)>>, 0, 10)

T4 == Item(4, TitleX, <<Artist(1, NameAb)>>, 1990, 0)

T5 == Item(5, TitleLove, <<Artist(2, NameIU)>>, 1999, 70)

T6 == Item(6, TitleX, <<Artist(2, NameIU), Artist(1, NameAb)>>, 2010, -1)

T7 == Item(7, TitleAb, <<Artist(3, NameCd)>>, 1985, 30)

T8 == Item(8, TitleX, <<>>, 1992, 20)

T9 == [Item(9, TitleLove, <<>>, 1992, 20) EXCEPT !.noArtists = TRUE]

\* The artist the catalog lists first for a track id (0: none).
CatalogFirstArtist(id) ==
  CASE id \in {1, 2, 3, 4} -> 1
    [] id \in {5, 6} -> 2
    [] id = 7 -> 3
    [] OTHER -> 0

\* The tracks of the catalog, and the ids of the artists the catalog lists
\* for a track id.
CatalogTracks == {T1, T2, T3, T4, T5, T6, T7, T8, T9}

CatalogArtistIdsOf(id) ==
  UNION { {t.artists[i].id : i \in 1..Len(t.artists)} : t \in {x \in CatalogTracks : x.id = id} }

\* The release year the catalog holds for a track id (0: none).
CatalogYearOf(id) == (CHOOSE t \in CatalogTracks : t.id = id).year

\* What artists.topTracks may answer for an artist.
TopTrackAnswers(artistId) ==
  CASE artistId = 1 -> { <<T1, T2, T3, T4>>, <<T1, NullItem, T1>>, <<>> }
    [] artistId = 2 -> { <<T5, T6>>, <<T6, T1>>, <<>> }
    [] OTHER -> { <<>> }

\* What a track search may answer.
SearchAnswers == { <<T1, T5, T7>>, <<T2, T8, T9, NullItem, T7>>, <<>> }

TagClassicRock == <<67, 108, 97, 115, 115, 105, 99, 32, 82, 111, 99, 107>>

TagKPop == <<107, 45, 112, 111, 112>>

\* What GET /artists may answer for the ids asked: a list of artist
\* objects {id, genres}.
GenreAnswers(ids) ==
  { [i \in 1..Len(ids) |-> [id |-> ids[i], genres |-> <<TagClassicRock>>]],
    [i \in 1..Len(ids) |->
       [id |-> ids[i],
        genres |-> IF ids[i] = 1 THEN <<TagKPop>> ELSE <<TagKPop, TagClassicRock>>]],
    <<>> }

\* The map built from the answer: an artist without an id is skipped, the
\* tags are lower-cased.
GenresMapOf(artists) ==
  LET withId == {i \in 1..Len(artists) : artists[i].id # 0}
      idsIn == {artists[i].id : i \in withId}
      lastOf(id) == CHOOSE i \in withId :
                      artists[i].id = id /\ \A j \in withId : artists[j].id = id => j <= i
  IN [id \in idsIn |->
        [g \in 1..Len(artists[lastOf(id)].genres) |->
           ToLowerCase(artists[lastOf(id)].genres[g])]]

EmptyMap == [id \in {} |-> <<>>]

(***************************************************************************)
(* buildHybridRecommendations: inputs                                      *)
(***************************************************************************)
MaxLimit == 3

NoLimit == -1

ParamLimits == {NoLimit} \cup (0..MaxLimit)

GenreRock == <<114, 111, 99, 107>>

ParamSets ==
  [limit : ParamLimits,
   seedArtistIds : { <<>>, <<1>>, <<1, 2>> },
   userTopArtistIds : { <<>>, <<2>> },
   genres : { <<>>, <<GenreRock>> },
   keywords : { <<>>, <<TitleAb>> },
   yearRange : { NoYearRange, YearRange(1990, 1999) }]

\* Math.min(100, Math.max(1, params.limit ?? 20))
Limit(p) == Min(100, Max(1, IF p.limit = NoLimit THEN 20 ELSE p.limit))

\* The two loops that fill `seeds`: an id is pushed unless it is empty or
\* already there; each loop breaks once 5 seeds are held.
RECURSIVE PushSeeds(_, _)
PushSeeds(seeds, ids) ==
  IF ids = <<>> THEN seeds
  ELSE LET s == IF Head(ids) # 0 /\ Head(ids) \notin Range(seeds)
                THEN Append(seeds, Head(ids)) ELSE seeds
       IN IF Len(s) >= 5 THEN s ELSE PushSeeds(s, Tail(ids))

CandidateArtistIds(p) ==
  Take(Dedup(PushSeeds(PushSeeds(<<>>, p.seedArtistIds), p.userTopArtistIds)), 12)

\* The search queries, as records: genre queries (with the year qualifier
\* when a year range is given), then the non-blank keywords, and the year
\* alone when there is nothing else.
Query(genre, years, text) == [genre |-> genre, years |-> years, text |-> text]

BuildQueries(p) ==
  LET byGenre == [i \in 1..Len(p.genres) |-> Query(p.genres[i], p.yearRange, <<>>)]
      kws == SelectSeq([i \in 1..Len(p.keywords) |-> Trim(p.keywords[i])],
                       LAMBDA q : q # <<>>)
      byKeyword == [i \in 1..Len(kws) |-> Query(<<>>, NoYearRange, kws[i])]
      all == byGenre \o byKeyword
  IN IF all = <<>> /\ p.yearRange.has
     THEN <<Query(<<>>, p.yearRange, <<>>)>> ELSE all

(***************************************************************************)
(* buildHybridRecommendations: state                                       *)
(*                                                                         *)
(* pc is the await the run is suspended at, or the synchronous stretch it  *)
(* is about to execute.  call is the catalog request in flight: "pending"  *)
(* until the catalog answers or fails it, "lost" when no answer will ever  *)
(* come.  hist records what was asked and answered, for the properties.    *)
(***************************************************************************)
VARIABLES pc, params, limit, seeds, ai, artistTracks, queries, qi, unique,
          candidates, call, artistGenresMap, result, relaxed, outcome, hist

pipelineVars == <<pc, params, limit, seeds, ai, artistTracks, queries, qi, unique,
                  candidates, call, artistGenresMap, result, relaxed, outcome, hist>>

\* The state of the caches and of the calls that read them (below).
VARIABLES now, ticks, cachedArtistSeeds, clientCredentialCache, spotifyTopCache,
          rs, cc, top, lastRead

cacheVars == <<now, ticks, cachedArtistSeeds, clientCredentialCache,
               spotifyTopCache, rs, cc, top, lastRead>>

\* The inputs and results of the calls that stand beside the pipeline:
\* genreInputs and norm are the argument and the state of a normalizeGenres
\* call, fj the state of a fetchSpotifyJson call, yearIn and yearOut the
\* text given to the year-range extractor (by its parts) and its result.
VARIABLES genreInputs, norm, fj, yearIn, yearOut

normVars == <<genreInputs, norm>>

fetchVars == <<fj>>

yearVars == <<yearIn, yearOut>>

\* The scheduled generation: schedule is the one schedule the storage holds,
\* generatedPlaylists the playlists stored (each with the day it was stored
\* on), sreq[p] the state of request p to POST
\* /api/generate-scheduled-playlist, clock the calendar day and where the
\* time of day stands against the schedule's 5-minute window.
VARIABLES schedule, generatedPlaylists, sreq, clock

schedVars == <<schedule, generatedPlaylists, sreq, clock>>

sideVars == <<normVars, fetchVars, yearVars, schedVars>>

\* lastRun 0 is null.
NoLastRun == 0

InitSchedule ==
  /\ schedule = [enabled |-> TRUE, frequency |-> "daily", lastRun |-> NoLastRun]
  /\ generatedPlaylists = <<>>
  /\ sreq = [p \in {1, 2} |-> "idle"]
  /\ clock = [day |-> 1, phase |-> "before"]

NoCall == [kind |-> "none", st |-> "none"]

Pending(kind) == [kind |-> kind, st |-> "pending"]

NoHist ==
  [issuedTop |-> {}, issuedSearch |-> {}, failed |-> {},
   returnedTop |-> {}, returnedSearch |-> {}, genresAsked |-> <<>>]

InitPipeline(p) ==
  /\ pc = "start"
  /\ params = p
  /\ limit = Limit(p)
  /\ seeds = <<>>
  /\ ai = 1
  /\ artistTracks = <<>>
  /\ queries = <<>>
  /\ qi = 1
  /\ unique = <<>>
  /\ candidates = <<>>
  /\ call = NoCall
  /\ artistGenresMap = EmptyMap
  /\ result = <<>>
  /\ relaxed = FALSE
  /\ outcome = "none"
  /\ hist = NoHist

\* getUncachableSpotifyClient(req) is awaited first.
Start ==
  /\ pc = "start"
  /\ pc' = "client"
  /\ call' = Pending("client")
  /\ UNCHANGED <<params, limit, seeds, ai, artistTracks, queries, qi, unique,
                 candidates, artistGenresMap, result, relaxed, outcome, hist>>
  /\ UNCHANGED <<cacheVars, sideVars>>

\* The client is there: the seeds are collected and getTopTracksForArtists
\* is entered (it returns [] at once when there is no artist).
ClientOk ==
  /\ pc = "client" /\ call.st = "pending"
  /\ seeds' = CandidateArtistIds(params)
  /\ pc' = "primary"
  /\ call' = NoCall
  /\ UNCHANGED <<params, limit, ai, artistTracks, queries, qi, unique,
                 candidates, artistGenresMap, result, relaxed, outcome, hist>>
  /\ UNCHANGED <<cacheVars, sideVars>>

\* getUncachableSpotifyClient throws: the promise is rejected.
ClientFail ==
  /\ pc = "client" /\ call.st = "pending"
  /\ pc' = "threw"
  /\ outcome' = "threw"
  /\ call' = NoCall
  /\ UNCHANGED <<params, limit, seeds, ai, artistTracks, queries, qi, unique,
                 candidates, artistGenresMap, result, relaxed, hist>>
  /\ UNCHANGED <<cacheVars, sideVars>>

TopCap == Len(seeds) * Max(1, 3)

\* One turn of the loop over the artists: skipped when the map is full,
\* else artists.topTracks is awaited.
TopTracksNext ==
  /\ pc = "primary" /\ call.st = "none" /\ ai <= Len(seeds)
  /\ IF seeds[ai] = 0 \/ Len(artistTracks) >= TopCap
     THEN /\ ai' = ai + 1
          /\ UNCHANGED <<call, hist>>
     ELSE /\ call' = Pending("top")
          /\ hist' = [hist EXCEPT !.issuedTop = @ \cup {ai}]
          /\ UNCHANGED ai
  /\ UNCHANGED <<pc, params, limit, seeds, artistTracks, queries, qi, unique,
                 candidates, artistGenresMap, result, relaxed, outcome>>
  /\ UNCHANGED <<cacheVars, sideVars>>

TopTracksOk ==
  /\ pc = "primary" /\ call = Pending("top")
  /\ \E items \in TopTrackAnswers(seeds[ai]) :
       /\ artistTracks' =
            MergeTracks(artistTracks,
                        [i \in 1..Len(items) |-> TopTrackToTrack(items[i])], TopCap)
       /\ hist' = [hist EXCEPT !.returnedTop =
                     @ \cup ({items[i].id : i \in 1..Len(items)} \ {0})]
  /\ ai' = ai + 1
  /\ call' = NoCall
  /\ UNCHANGED <<pc, params, limit, seeds, queries, qi, unique,
                 candidates, artistGenresMap, result, relaxed, outcome>>
  /\ UNCHANGED <<cacheVars, sideVars>>

\* The catch inside the loop: the failure is logged, the loop goes on.
TopTracksFail ==
  /\ pc = "primary" /\ call = Pending("top")
  /\ ai' = ai + 1
  /\ call' = NoCall
  /\ hist' = [hist EXCEPT !.failed = @ \cup {<<"top", ai>>}]
  /\ UNCHANGED <<pc, params, limit, seeds, artistTracks, queries, qi, unique,
                 candidates, artistGenresMap, result, relaxed, outcome>>
  /\ UNCHANGED <<cacheVars, sideVars>>

\* The same step with every query kept (no slice(0, 6)).
PrimaryDoneNoSlice ==
  /\ pc = "primary" /\ call.st = "none" /\ ai > Len(seeds)
  /\ candidates' = artistTracks
  /\ IF Len(artistTracks) < limit
     THEN /\ queries' = BuildQueries(params)
          /\ unique' = artistTracks
          /\ pc' = "search"
     ELSE /\ pc' = "enrich"
          /\ UNCHANGED <<queries, unique>>
  /\ UNCHANGED <<params, limit, seeds, ai, artistTracks, qi, call,
                 artistGenresMap, result, relaxed, outcome, hist>>
  /\ UNCHANGED <<cacheVars, sideVars>>

\* getTopTracksForArtists has returned: candidates = [...artistTracks], and
\* the search is prepared when they are fewer than limit.
PrimaryDone ==
  /\ pc = "primary" /\ call.st = "none" /\ ai > Len(seeds)
  /\ candidates' = artistTracks
  /\ IF Len(artistTracks) < limit
     THEN /\ queries' = Take(BuildQueries(params), 6)
          /\ unique' = artistTracks
          /\ pc' = "search"
     ELSE /\ pc' = "enrich"
          /\ UNCHANGED <<queries, unique>>
  /\ UNCHANGED <<params, limit, seeds, ai, artistTracks, qi, call,
                 artistGenresMap, result, relaxed, outcome, hist>>
  /\ UNCHANGED <<cacheVars, sideVars>>

\* One turn of the loop over queries.slice(0, 6): spotify.search is awaited.
SearchNext ==
  /\ pc = "search" /\ call.st = "none" /\ qi <= Len(queries)
  /\ call' = Pending("search")
  /\ hist' = [hist EXCEPT !.issuedSearch = @ \cup {qi}]
  /\ UNCHANGED <<pc, params, limit, seeds, ai, artistTracks, queries, qi, unique,
                 candidates, artistGenresMap, result, relaxed, outcome>>
  /\ UNCHANGED <<cacheVars, sideVars>>

\* After a query, `if (unique.size >= limit * 2) break` ends the loop.
AfterQuery(pool) == IF Len(pool) >= limit * 2 THEN Len(queries) + 1 ELSE qi + 1

SearchOk ==
  /\ pc = "search" /\ call = Pending("search")
  /\ \E items \in SearchAnswers :
       LET pool == IF items = <<>> THEN unique
                   ELSE MergeTracks(unique,
                          [i \in 1..Len(items) |-> SearchItemToTrack(items[i])],
                          limit * 2)
       IN /\ unique' = pool
          /\ qi' = AfterQuery(pool)
          /\ hist' = [hist EXCEPT !.returnedSearch =
                        @ \cup ({items[i].id : i \in 1..Len(items)} \ {0})]
  /\ call' = NoCall
  /\ UNCHANGED <<pc, params, limit, seeds, ai, artistTracks, queries,
                 candidates, artistGenresMap, result, relaxed, outcome>>
  /\ UNCHANGED <<cacheVars, sideVars>>

\* The search loop without its catch: the failure rejects the promise.
SearchFailRethrow ==
  /\ pc = "search" /\ call = Pending("search")
  /\ pc' = "threw"
  /\ outcome' = "threw"
  /\ call' = NoCall
  /\ hist' = [hist EXCEPT !.failed = @ \cup {<<"search", qi>>}]
  /\ UNCHANGED <<params, limit, seeds, ai, artistTracks, queries, qi, unique,
                 candidates, artistGenresMap, result, relaxed>>
  /\ UNCHANGED <<cacheVars, sideVars>>

\* The catch inside the loop: the failure is logged, the loop goes on.
SearchFail ==
  /\ pc = "search" /\ call = Pending("search")
  /\ qi' = AfterQuery(unique)
  /\ call' = NoCall
  /\ hist' = [hist EXCEPT !.failed = @ \cup {<<"search", qi>>}]
  /\ UNCHANGED <<pc, params, limit, seeds, ai, artistTracks, queries, unique,
                 candidates, artistGenresMap, result, relaxed, outcome>>
  /\ UNCHANGED <<cacheVars, sideVars>>

\* The search loop ends and the top tracks are fetched again.
SearchDoneRefetchTopTracks ==
  /\ pc = "search" /\ call.st = "none" /\ qi > Len(queries)
  /\ candidates' = unique
  /\ pc' = "primary"
  /\ ai' = 1
  /\ UNCHANGED <<params, limit, seeds, artistTracks, queries, qi, unique, call,
                 artistGenresMap, result, relaxed, outcome, hist>>
  /\ UNCHANGED <<cacheVars, sideVars>>

\* The search loop ends: candidates = Array.from(unique.values()).
SearchDone ==
  /\ pc = "search" /\ call.st = "none" /\ qi > Len(queries)
  /\ candidates' = unique
  /\ pc' = "enrich"
  /\ UNCHANGED <<params, limit, seeds, ai, artistTracks, queries, qi, unique, call,
                 artistGenresMap, result, relaxed, outcome, hist>>
  /\ UNCHANGED <<cacheVars, sideVars>>

\* allArtistIds, and the ids getArtistsGenresMap asks for.
AllArtistIds(cands) == Dedup(Flatten([i \in 1..Len(cands) |-> cands[i].artistIds]))

GenreBatchIds(artistIds) == Take(SelectSeq(Dedup(artistIds), LAMBDA a : a # 0), 50)

\* getArtistsGenresMap: {} at once when there is no id, else one request.
EnrichStart ==
  /\ pc = "enrich" /\ call.st = "none"
  /\ IF AllArtistIds(candidates) = <<>>
     THEN /\ artistGenresMap' = EmptyMap
          /\ pc' = "score"
          /\ UNCHANGED <<call, hist>>
     ELSE /\ call' = Pending("genres")
          /\ hist' = [hist EXCEPT !.genresAsked = GenreBatchIds(AllArtistIds(candidates))]
          /\ UNCHANGED <<pc, artistGenresMap>>
  /\ UNCHANGED <<params, limit, seeds, ai, artistTracks, queries, qi, unique,
                 candidates, result, relaxed, outcome>>
  /\ UNCHANGED <<cacheVars, sideVars>>

GenresOk ==
  /\ pc = "enrich" /\ call = Pending("genres")
  /\ \E artists \in GenreAnswers(hist.genresAsked) :
       artistGenresMap' = GenresMapOf(artists)
  /\ pc' = "score"
  /\ call' = NoCall
  /\ UNCHANGED <<params, limit, seeds, ai, artistTracks, queries, qi, unique,
                 candidates, result, relaxed, outcome, hist>>
  /\ UNCHANGED <<cacheVars, sideVars>>

\* getArtistsGenresMap without its catch: the failure rejects the promise
\* of buildHybridRecommendations.
GenresFailRethrow ==
  /\ pc = "enrich" /\ call = Pending("genres")
  /\ pc' = "threw"
  /\ outcome' = "threw"
  /\ call' = NoCall
  /\ hist' = [hist EXCEPT !.failed = @ \cup {<<"genres", 1>>}]
  /\ UNCHANGED <<params, limit, seeds, ai, artistTracks, queries, qi, unique,
                 candidates, artistGenresMap, result, relaxed>>
  /\ UNCHANGED <<cacheVars, sideVars>>

\* The catch of getArtistsGenresMap: an empty map.
GenresFail ==
  /\ pc = "enrich" /\ call = Pending("genres")
  /\ artistGenresMap' = EmptyMap
  /\ pc' = "score"
  /\ call' = NoCall
  /\ hist' = [hist EXCEPT !.failed = @ \cup {<<"genres", 1>>}]
  /\ UNCHANGED <<params, limit, seeds, ai, artistTracks, queries, qi, unique,
                 candidates, result, relaxed, outcome>>
  /\ UNCHANGED <<cacheVars, sideVars>>

\* Pre-filter, scoring, sort and selection: one synchronous stretch, at the
\* end of which the promise resolves with finalPick.slice(0, limit).
ScoreAndSelect ==
  /\ pc = "score"
  /\ LET filtered == PreFilter(candidates, artistGenresMap, limit)
         scored == Scored(filtered, artistGenresMap, params.yearRange, params.keywords)
         pick == FinalPick(scored, limit)
     IN /\ result' = pick.tracks
        /\ relaxed' = pick.relaxed
  /\ pc' = "done"
  /\ outcome' = "returned"
  /\ UNCHANGED <<params, limit, seeds, ai, artistTracks, queries, qi, unique,
                 candidates, call, artistGenresMap, hist>>
  /\ UNCHANGED <<cacheVars, sideVars>>

\* The catalog never answers the request in flight.
CallLost ==
  /\ call.st = "pending"
  /\ call' = [call EXCEPT !.st = "lost"]
  /\ UNCHANGED <<pc, params, limit, seeds, ai, artistTracks, queries, qi, unique,
                 candidates, artistGenresMap, result, relaxed, outcome, hist>>
  /\ UNCHANGED <<cacheVars, sideVars>>

\* The steps of the run itself (the service's code).
PipelineStep ==
  \/ Start \/ TopTracksNext \/ PrimaryDone \/ SearchNext \/ SearchDone
  \/ EnrichStart \/ ScoreAndSelect

\* The catalog's answers.
CatalogStep ==
  \/ ClientOk \/ ClientFail \/ TopTracksOk \/ TopTracksFail
  \/ SearchOk \/ SearchFail \/ GenresOk \/ GenresFail

(***************************************************************************)
(* The TTL caches                                                          *)
(*                                                                         *)
(* now is Date.now() in milliseconds.  cachedArtistSeeds maps a sanitized  *)
(* name to its entry (NoEntry: none); clientCredentialCache and the        *)
(* session's spotifyTopCache hold one entry each.  rs[p] is the state of   *)
(* request p's resolveArtistSeeds call, cc that of a                       *)
(* getClientCredentialsToken call, top that of a getUserTopData call.      *)
(* lastRead records, for each cache, its latest read: whether the entry    *)
(* found was at or past its expiry and whether the entry was served.       *)
(***************************************************************************)
GENRE_CACHE_TTL == 60 * 60 * 1000

ARTIST_CACHE_TTL == 6 * 60 * 60 * 1000

USER_TOP_CACHE_TTL == 30 * 60 * 1000

MaxTicks == 3

\* The clock advances by half an hour or by six hours at a time.
TickSteps == {USER_TOP_CACHE_TTL, ARTIST_CACHE_TTL}

RawIU == <<73, 85>>

RawIUSpaced == <<32, 105, 117>>

RawAb == <<65, 98>>

RawCd == <<67, 100>>

RawEf == <<69, 102>>

\* Another name the catalog knows the artist IU by.
RawAi == <<65, 105>>

KeyIU == <<105, 117>>

KeyAb == <<97, 98>>

KeyCd == <<99, 100>>

KeyEf == <<101, 102>>

KeyAi == <<97, 105>>

ArtistKeys == {KeyIU, KeyAb, KeyCd, KeyEf, KeyAi}

\* The artist lists a resolveArtistSeeds call is made with.
TermLists == { <<RawIU>>, <<RawIUSpaced, RawAb>> }

NoEntry == [artistId |-> 0, topTrackId |-> 0, name |-> <<>>, expiresAt |-> -1]

NoToken == [token |-> 0, expiresAt |-> -1]

NoTopCache == [data |-> 0, expiresAt |-> -1]

Caches == {"artist", "token", "top"}

NoRead == [c \in Caches |-> [read |-> FALSE, expired |-> FALSE, hit |-> FALSE]]

\* The read of `cache` at instant `at` of an entry expiring at `expiresAt`
\* (-1: no entry), and whether the cached value was returned.
Read(cache, at, expiresAt, hit) ==
  [lastRead EXCEPT ![cache] =
     [read |-> TRUE, expired |-> expiresAt # -1 /\ at >= expiresAt, hit |-> hit]]

\* The test with `>=` in the place of `>`: an entry still served at the
\* instant it expires.
FreshAtOrAfterExpiry(entryExpiresAt, at) == entryExpiresAt # -1 /\ entryExpiresAt >= at

\* The test every cache read makes: the entry is there and expiresAt > now.
Fresh(entryExpiresAt, at) == entryExpiresAt # -1 /\ entryExpiresAt > at

IdleResolver ==
  [pc |-> "idle", terms |-> <<>>, i |-> 1, now |-> 0, artistSeeds |-> <<>>,
   trackSeeds |-> <<>>, resolvedNames |-> <<>>, seenArtists |-> {},
   firstArtist |-> Artist(0, <<>>)]

InitCaches ==
  /\ now = 0
  /\ ticks = 0
  /\ cachedArtistSeeds = [k \in ArtistKeys |-> NoEntry]
  /\ clientCredentialCache = NoToken
  /\ spotifyTopCache = NoTopCache
  /\ rs = [p \in {1, 2} |-> IdleResolver]
  /\ cc = [pc |-> "idle", token |-> 0]
  /\ top = [pc |-> "idle", now |-> 0, data |-> 0]
  /\ lastRead = NoRead

Tick ==
  /\ ticks < MaxTicks
  /\ \E d \in TickSteps : now' = now + d
  /\ ticks' = ticks + 1
  /\ UNCHANGED <<cachedArtistSeeds, clientCredentialCache, spotifyTopCache,
                 rs, cc, top, lastRead>>
  /\ UNCHANGED <<pipelineVars, sideVars>>

(***************************************************************************)
(* resolveArtistSeeds                                                      *)
(***************************************************************************)
CatalogArtists ==
  { Artist(1, NameAb), Artist(2, NameIU), Artist(3, NameCd), Artist(4, NameEf) }

\* What the artist search may answer for a term: the first hit with an id
\* (id 0: no hit).  The hit is an artist of that name; IU is also found as Ai.
ArtistSearchAnswers(rawName) ==
  LET name == sanitizeGenre(rawName)
  IN {Artist(0, <<>>)} \cup
     {a \in CatalogArtists :
        sanitizeGenre(a.name) = name \/ (name = KeyAi /\ a.id = 2)}

\* The id of the first top track of an artist (0: none).  Track 6 is by IU
\* and Ab together.
ArtistTopTrackAnswers(artistId) ==
  CASE artistId = 1 -> {0, 1, 6}
    [] artistId = 2 -> {0, 5, 6}
    [] artistId = 3 -> {0, 7}
    [] OTHER -> {0}

\* resolveArtistSeeds(artists) is called; an empty list returns at once.
ResolveCall(p) ==
  /\ rs[p].pc \in {"idle", "returned"}
  /\ \E terms \in TermLists :
       rs' = [rs EXCEPT ![p] = [IdleResolver EXCEPT !.pc = "loop", !.terms = terms]]
  /\ UNCHANGED <<now, ticks, cachedArtistSeeds, clientCredentialCache,
                 spotifyTopCache, cc, top, lastRead>>
  /\ UNCHANGED <<pipelineVars, sideVars>>

\* `if (artistSeeds.length >= 4) break`, then the next turn of the loop.
AfterTerm(r) ==
  IF Len(r.artistSeeds) >= 4 THEN [r EXCEPT !.i = Len(r.terms) + 1, !.pc = "loop"]
  ELSE [r EXCEPT !.i = r.i + 1, !.pc = "loop"]

\* One turn of the loop up to its first await: the name is sanitized, a
\* name seen before is skipped, the cache is read, and on a miss the artist
\* search is awaited.
ResolveNext(p) ==
  /\ rs[p].pc = "loop" /\ rs[p].i <= Len(rs[p].terms)
  /\ LET r == rs[p]
         name == sanitizeGenre(r.terms[r.i])
         cached == IF name \in ArtistKeys THEN cachedArtistSeeds[name] ELSE NoEntry
     IN IF name = <<>> \/ name \in r.seenArtists
        THEN /\ rs' = [rs EXCEPT ![p].i = r.i + 1]
             /\ UNCHANGED lastRead
        ELSE IF Fresh(cached.expiresAt, now)
        THEN /\ rs' = [rs EXCEPT ![p] =
                         [r EXCEPT !.seenArtists = @ \cup {name},
                                   !.now = now,
                                   !.artistSeeds = Append(@, cached.artistId),
                                   !.resolvedNames = Append(@, cached.name),
                                   !.trackSeeds = IF cached.topTrackId # 0
                                                  THEN Append(@, cached.topTrackId)
                                                  ELSE @,
                                   !.i = r.i + 1]]
             /\ lastRead' = Read("artist", now, cached.expiresAt, TRUE)
        ELSE /\ rs' = [rs EXCEPT ![p] =
                         [r EXCEPT !.seenArtists = @ \cup {name},
                                   !.now = now,
                                   !.pc = "search"]]
             /\ lastRead' = Read("artist", now, cached.expiresAt, FALSE)
  /\ UNCHANGED <<now, ticks, cachedArtistSeeds, clientCredentialCache,
                 spotifyTopCache, cc, top>>
  /\ UNCHANGED <<pipelineVars, sideVars>>

\* The search answers: without a hit the term is skipped (`continue`), with
\* one the artist is pushed and its top tracks are awaited.
ResolveSearchOk(p) ==
  /\ rs[p].pc = "search"
  /\ \E first \in ArtistSearchAnswers(rs[p].terms[rs[p].i]) :
       IF first.id = 0
       THEN rs' = [rs EXCEPT ![p] = [rs[p] EXCEPT !.i = @ + 1, !.pc = "loop"]]
       ELSE rs' = [rs EXCEPT ![p] =
                     [rs[p] EXCEPT !.firstArtist = first,
                                   !.artistSeeds = Append(@, first.id),
                                   !.resolvedNames = Append(@, first.name),
                                   !.pc = "topTracks"]]
  /\ UNCHANGED <<now, ticks, cachedArtistSeeds, clientCredentialCache,
                 spotifyTopCache, cc, top, lastRead>>
  /\ UNCHANGED <<pipelineVars, sideVars>>

\* The loop without its outer catch: the failure rejects the promise.
ResolveSearchFailRethrow(p) ==
  /\ rs[p].pc = "search"
  /\ rs' = [rs EXCEPT ![p].pc = "threw"]
  /\ UNCHANGED <<now, ticks, cachedArtistSeeds, clientCredentialCache,
                 spotifyTopCache, cc, top, lastRead>>
  /\ UNCHANGED <<pipelineVars, sideVars>>

\* The search throws: the outer catch logs it, nothing is cached.
ResolveSearchFail(p) ==
  /\ rs[p].pc = "search"
  /\ rs' = [rs EXCEPT ![p] = AfterTerm(rs[p])]
  /\ UNCHANGED <<now, ticks, cachedArtistSeeds, clientCredentialCache,
                 spotifyTopCache, cc, top, lastRead>>
  /\ UNCHANGED <<pipelineVars, sideVars>>

\* The entry written for the term: expiresAt is the `now` taken at the top
\* of the loop turn, before the awaits, plus the TTL.
ArtistEntry(r, topTrackId) ==
  [artistId |-> r.firstArtist.id, topTrackId |-> topTrackId,
   name |-> r.firstArtist.name, expiresAt |-> r.now + ARTIST_CACHE_TTL]

WriteArtistEntry(p, topTrackId) ==
  LET r == rs[p]
      name == sanitizeGenre(r.terms[r.i])
      pushed == IF topTrackId # 0
                THEN [r EXCEPT !.trackSeeds = Append(@, topTrackId)] ELSE r
  IN /\ cachedArtistSeeds' =
          [cachedArtistSeeds EXCEPT ![name] = ArtistEntry(r, topTrackId)]
     /\ rs' = [rs EXCEPT ![p] = AfterTerm(pushed)]

\* The top tracks answer: the first one's id, if any, is pushed, and the
\* entry is written under the sanitized name.
ResolveTopTracksOk(p) ==
  /\ rs[p].pc = "topTracks"
  /\ \E topTrackId \in ArtistTopTrackAnswers(rs[p].firstArtist.id) :
       WriteArtistEntry(p, topTrackId)
  /\ UNCHANGED <<now, ticks, clientCredentialCache, spotifyTopCache, cc, top, lastRead>>
  /\ UNCHANGED <<pipelineVars, sideVars>>

\* The top-tracks fetch throws: the inner catch logs it, and the entry is
\* written without a top track.
ResolveTopTracksFail(p) ==
  /\ rs[p].pc = "topTracks"
  /\ WriteArtistEntry(p, 0)
  /\ UNCHANGED <<now, ticks, clientCredentialCache, spotifyTopCache, cc, top, lastRead>>
  /\ UNCHANGED <<pipelineVars, sideVars>>

\* The return without the three slice calls.
ResolveReturnNoSlice(p) ==
  /\ rs[p].pc = "loop" /\ rs[p].i > Len(rs[p].terms)
  /\ rs' = [rs EXCEPT ![p] =
              [rs[p] EXCEPT !.pc = "returned",
                            !.artistSeeds = Dedup(@),
                            !.trackSeeds = Dedup(@),
                            !.resolvedNames = Dedup(@)]]
  /\ UNCHANGED <<now, ticks, cachedArtistSeeds, clientCredentialCache,
                 spotifyTopCache, cc, top, lastRead>>
  /\ UNCHANGED <<pipelineVars, sideVars>>

\* The loop is over: the three lists are returned, each without repeats.
ResolveReturn(p) ==
  /\ rs[p].pc = "loop" /\ rs[p].i > Len(rs[p].terms)
  /\ rs' = [rs EXCEPT ![p] =
              [rs[p] EXCEPT !.pc = "returned",
                            !.artistSeeds = Take(Dedup(@), 3),
                            !.trackSeeds = Take(Dedup(@), 2),
                            !.resolvedNames = Take(Dedup(@), 3)]]
  /\ UNCHANGED <<now, ticks, cachedArtistSeeds, clientCredentialCache,
                 spotifyTopCache, cc, top, lastRead>>
  /\ UNCHANGED <<pipelineVars, sideVars>>

ResolveStep(p) ==
  \/ ResolveCall(p) \/ ResolveNext(p) \/ ResolveSearchOk(p) \/ ResolveSearchFail(p)
  \/ ResolveTopTracksOk(p) \/ ResolveTopTracksFail(p) \/ ResolveReturn(p)

(***************************************************************************)
(* getClientCredentialsToken                                               *)
(***************************************************************************)
\* expires_in of the token answer, in seconds (0: the field is absent).
ExpiresInAnswers == {0, 30, 1860}

\* A token other than the cached one.
NewToken == IF clientCredentialCache.token = 1 THEN 2 ELSE 1

\* The call up to its await: the cached token is returned while
\* expiresAt > now; without credentials in the environment the call throws;
\* else the token request is awaited.
TokenCall ==
  /\ cc.pc \in {"idle", "returned", "threw"}
  /\ IF Fresh(clientCredentialCache.expiresAt, now)
     THEN /\ cc' = [pc |-> "returned", token |-> clientCredentialCache.token]
          /\ lastRead' = Read("token", now, clientCredentialCache.expiresAt, TRUE)
     ELSE /\ \E configured \in BOOLEAN :
               cc' = [pc |-> IF configured THEN "fetching" ELSE "threw", token |-> 0]
          /\ lastRead' = Read("token", now, clientCredentialCache.expiresAt, FALSE)
  /\ UNCHANGED <<now, ticks, cachedArtistSeeds, clientCredentialCache,
                 spotifyTopCache, rs, top>>
  /\ UNCHANGED <<pipelineVars, sideVars>>

\* Date.now() + (data.expires_in ?? 3600) * 1000 - 60 * 1000
TokenExpiresAt(at, expiresIn) ==
  at + (IF expiresIn = 0 THEN 3600 ELSE expiresIn) * 1000 - 60 * 1000

TokenFetchOk ==
  /\ cc.pc = "fetching"
  /\ \E expiresIn \in ExpiresInAnswers :
       clientCredentialCache' =
         [token |-> NewToken, expiresAt |-> TokenExpiresAt(now, expiresIn)]
  /\ cc' = [pc |-> "returned", token |-> NewToken]
  /\ UNCHANGED <<now, ticks, cachedArtistSeeds, spotifyTopCache, rs, top, lastRead>>
  /\ UNCHANGED <<pipelineVars, sideVars>>

\* The token request is refused: the call throws, nothing is cached.
TokenFetchFail ==
  /\ cc.pc = "fetching"
  /\ cc' = [pc |-> "threw", token |-> 0]
  /\ UNCHANGED <<now, ticks, cachedArtistSeeds, clientCredentialCache,
                 spotifyTopCache, rs, top, lastRead>>
  /\ UNCHANGED <<pipelineVars, sideVars>>

(***************************************************************************)
(* getUserTopData                                                          *)
(***************************************************************************)
\* The snapshots the catalog may answer with (0 is the empty result).
TopDataAnswers == {1, 2}

\* The call up to its await: without a session the empty result; the cached
\* snapshot unless forced or expired; else the two top-items requests.
TopCall ==
  /\ top.pc \in {"idle", "returned"}
  /\ \E hasSession \in BOOLEAN, force \in BOOLEAN :
       IF ~hasSession
       THEN /\ top' = [pc |-> "returned", now |-> now, data |-> 0]
            /\ UNCHANGED lastRead
       ELSE IF ~force /\ Fresh(spotifyTopCache.expiresAt, now)
       THEN /\ top' = [pc |-> "returned", now |-> now, data |-> spotifyTopCache.data]
            /\ lastRead' = Read("top", now, spotifyTopCache.expiresAt, TRUE)
       ELSE /\ top' = [pc |-> "fetching", now |-> now, data |-> 0]
            /\ lastRead' = Read("top", now, spotifyTopCache.expiresAt, FALSE)
  /\ UNCHANGED <<now, ticks, cachedArtistSeeds, clientCredentialCache,
                 spotifyTopCache, rs, cc>>
  /\ UNCHANGED <<pipelineVars, sideVars>>

\* Both requests answer: the snapshot is cached with the `now` taken before
\* the awaits plus the TTL, and returned.
TopFetchOk ==
  /\ top.pc = "fetching"
  /\ \E data \in TopDataAnswers :
       /\ spotifyTopCache' = [data |-> data, expiresAt |-> top.now + USER_TOP_CACHE_TTL]
       /\ top' = [top EXCEPT !.pc = "returned", !.data = data]
  /\ UNCHANGED <<now, ticks, cachedArtistSeeds, clientCredentialCache, rs, cc, lastRead>>
  /\ UNCHANGED <<pipelineVars, sideVars>>

\* A request fails: the catch returns the empty result, the cache is kept.
TopFetchFail ==
  /\ top.pc = "fetching"
  /\ top' = [top EXCEPT !.pc = "returned", !.data = 0]
  /\ UNCHANGED <<now, ticks, cachedArtistSeeds, clientCredentialCache,
                 spotifyTopCache, rs, cc, lastRead>>
  /\ UNCHANGED <<pipelineVars, sideVars>>

(***************************************************************************)
(* normalizeGenres                                                         *)
(*                                                                         *)
(* Strings are sequences of code points; the empty sequence stands for     *)
(* the null that tryResolve returns.                                       *)
(***************************************************************************)
\* pop, rock, indie, alternative, electronic, hip-hop, jazz, chill
FALLBACK_SEEDS ==
  << <<112, 111, 112>>,  \* pop
     <<114, 111, 99, 107>>,  \* rock
     <<105, 110, 100, 105, 101>>,  \* indie
     <<97, 108, 116, 101, 114, 110, 97, 116, 105, 118, 101>>,  \* alternative
     <<101, 108, 101, 99, 116, 114, 111, 110, 105, 99>>,  \* electronic
     <<104, 105, 112, 45, 104, 111, 112>>,  \* hip-hop
     <<106, 97, 122, 122>>,  \* jazz
     <<99, 104, 105, 108, 108>> >>  \* chill

\* The hard-coded seed vocabulary, in the order of the source.
KNOWN_SPOTIFY_GENRES ==
  << <<97, 99, 111, 117, 115, 116, 105, 99>>,  \* acoustic
     <<97, 102, 114, 111, 98, 101, 97, 116>>,  \* afrobeat
     <<97, 108, 116, 45, 114, 111, 99, 107>>,  \* alt-rock
     <<97, 108, 116, 101, 114, 110, 97, 116, 105, 118, 101>>,  \* alternative
     <<97, 109, 98, 105, 101, 110, 116>>,  \* ambient
     <<98, 108, 117, 101, 115>>,  \* blues
     <<99, 104, 105, 108, 108>>,  \* chill
     <<99, 108, 97, 115, 115, 105, 99, 97, 108>>,  \* classical
     <<99, 111, 117, 110, 116, 114, 121>>,  \* country
     <<100, 97, 110, 99, 101>>,  \* dance
     <<101, 108, 101, 99, 116, 114, 111, 110, 105, 99>>,  \* electronic
     <<102, 111, 108, 107>>,  \* folk
     <<102, 117, 110, 107>>,  \* funk
     <<103, 97, 114, 97, 103, 101>>,  \* garage
     <<103, 111, 115, 112, 101, 108>>,  \* gospel
     <<103, 114, 111, 111, 118, 101>>,  \* groove
     <<104, 105, 112, 45, 104, 111, 112>>,  \* hip-hop
     <<104, 111, 117, 115, 101>>,  \* house
     <<105, 110, 100, 105, 101>>,  \* indie
     <<105, 110, 100, 105, 101, 45, 112, 111, 112>>,  \* indie-pop
     <<106, 97, 122, 122>>,  \* jazz
     <<108, 97, 116, 105, 110>>,  \* latin
     <<109, 101, 116, 97, 108>>,  \* metal
     <<110, 101, 119, 45, 97, 103, 101>>,  \* new-age
     <<112, 111, 112>>,  \* pop
     <<112, 117, 110, 107>>,  \* punk
     <<114, 45, 110, 45, 98>>,  \* r-n-b
     <<114, 101, 103, 103, 97, 101>>,  \* reggae
     <<114, 111, 99, 107>>,  \* rock
     <<115, 111, 117, 108>>,  \* soul
     <<116, 101, 99, 104, 110, 111>>,  \* techno
     <<116, 114, 97, 110, 99, 101>> >>  \* trance

\* The alias table: the keys are compared as written (the Korean ones as
\* precomposed syllables).
GENRE_ALIAS_ENTRIES ==
  << [keys |-> <<<<47197>>, <<46973>>, <<46973, 50532, 47204>>, <<114, 111, 99, 107, 32, 110, 32, 114, 111, 108, 108>>, <<114, 111, 99, 107, 45, 97, 110, 100, 45, 114, 111, 108, 108>>>>,
       value |-> <<114, 111, 99, 107>>],  \* rock
     [keys |-> <<<<48156, 46972, 46300>>, <<98, 97, 108, 108, 97, 100>>>>,
       value |-> <<98, 97, 108, 108, 97, 100>>],  \* ballad
     [keys |-> <<<<51116, 51592>>, <<106, 97, 122>>, <<106, 97, 122, 122>>>>,
       value |-> <<106, 97, 122, 122>>],  \* jazz
     [keys |-> <<<<55193, 54633>>, <<55193, 54633, 51020, 50501>>, <<104, 105, 112, 104, 111, 112>>, <<104, 105, 112, 45, 104, 111, 112>>>>,
       value |-> <<104, 105, 112, 45, 104, 111, 112>>],  \* hip-hop
     [keys |-> <<<<51064, 46356>>, <<105, 110, 100, 105, 101>>>>,
       value |-> <<105, 110, 100, 105, 101>>],  \* indie
     [keys |-> <<<<51064, 46356, 54045>>, <<105, 110, 100, 105, 101, 32, 112, 111, 112>>>>,
       value |-> <<105, 110, 100, 105, 101, 45, 112, 111, 112>>],  \* indie-pop
     [keys |-> <<<<51064, 46356, 47197>>, <<105, 110, 100, 105, 101, 32, 114, 111, 99, 107>>>>,
       value |-> <<105, 110, 100, 105, 101, 45, 114, 111, 99, 107>>],  \* indie-rock
     [keys |-> <<<<51068, 47113, 53944, 47196, 45769>>, <<101, 108, 101, 99, 116, 114, 111>>, <<101, 108, 101, 99, 116, 114, 111, 110, 105, 99>>, <<101, 100, 109>>>>,
       value |-> <<101, 108, 101, 99, 116, 114, 111, 110, 105, 99>>],  \* electronic
     [keys |-> <<<<49888, 49828>>, <<49888, 49828, 54045>>, <<115, 121, 110, 116, 104>>, <<115, 121, 110, 116, 104, 112, 111, 112>>, <<115, 121, 110, 116, 104, 32, 112, 111, 112>>>>,
       value |-> <<115, 121, 110, 116, 104, 45, 112, 111, 112>>],  \* synth-pop
     [keys |-> <<<<54252, 53356>>, <<54252, 53356, 47197>>, <<102, 111, 108, 107>>>>,
       value |-> <<102, 111, 108, 107>>],  \* folk
     [keys |-> <<<<54252, 49828, 53944, 47197>>, <<112, 111, 115, 116, 32, 114, 111, 99, 107>>, <<112, 111, 115, 116, 114, 111, 99, 107>>>>,
       value |-> <<112, 111, 115, 116, 45, 114, 111, 99, 107>>],  \* post-rock
     [keys |-> <<<<49828, 53916, 46356>>, <<115, 116, 117, 100, 121>>>>,
       value |-> <<115, 116, 117, 100, 121>>],  \* study
     [keys |-> <<<<108, 111, 102, 105>>, <<108, 111, 45, 102, 105>>, <<47196, 54028, 51060>>>>,
       value |-> <<108, 111, 45, 102, 105>>],  \* lo-fi
     [keys |-> <<<<52264, 48516, 54620>>, <<99, 97, 108, 109>>, <<99, 104, 105, 108, 108>>>>,
       value |-> <<99, 104, 105, 108, 108>>],  \* chill
     [keys |-> <<<<51665, 51473>>, <<102, 111, 99, 117, 115>>>>,
       value |-> <<102, 111, 99, 117, 115>>],  \* focus
     [keys |-> <<<<46300, 46972, 51060, 48652>>, <<100, 114, 105, 118, 101>>>>,
       value |-> <<114, 111, 97, 100, 45, 116, 114, 105, 112>>] >>  \* road-trip

MinOf(S) == CHOOSE x \in S : \A y \in S : x <= y

\* seedSet.has
SeedSetHas(x) == x \in Range(KNOWN_SPOTIFY_GENRES)

\* The alias lookup accepting a value outside the seed set.
AliasMatchUnchecked(sanitized) ==
  LET hits == {i \in 1..Len(GENRE_ALIAS_ENTRIES) :
                 sanitized \in Range(GENRE_ALIAS_ENTRIES[i].keys)}
  IN IF hits = {} THEN <<>> ELSE GENRE_ALIAS_ENTRIES[MinOf(hits)].value

\* The first alias entry that lists the term and whose value is a seed.
AliasMatch(sanitized) ==
  LET hits == {i \in 1..Len(GENRE_ALIAS_ENTRIES) :
                 /\ sanitized \in Range(GENRE_ALIAS_ENTRIES[i].keys)
                 /\ SeedSetHas(GENRE_ALIAS_ENTRIES[i].value)}
  IN IF hits = {} THEN <<>> ELSE GENRE_ALIAS_ENTRIES[MinOf(hits)].value

\* The first seed that contains the term or is contained in it.
FuzzyMatch(sanitized) ==
  LET hits == {i \in 1..Len(KNOWN_SPOTIFY_GENRES) :
                 \/ Includes(KNOWN_SPOTIFY_GENRES[i], sanitized)
                 \/ Includes(sanitized, KNOWN_SPOTIFY_GENRES[i])}
  IN IF hits = {} THEN <<>> ELSE KNOWN_SPOTIFY_GENRES[MinOf(hits)]

tryResolve(term) ==
  LET sanitized == sanitizeGenre(term)
  IN IF sanitized = <<>> THEN <<>>
     ELSE IF SeedSetHas(sanitized) THEN sanitized
     ELSE IF AliasMatch(sanitized) # <<>> THEN AliasMatch(sanitized)
     ELSE FuzzyMatch(sanitized)

\* The loop over the inputs: a blank input is skipped, a match is added to
\* the set `resolved` (kept in insertion order), anything else is pushed to
\* `unmatched` as it was given.
RECURSIVE NormalizeLoop(_, _, _)
NormalizeLoop(inputs, resolved, unmatched) ==
  IF inputs = <<>> THEN [seedGenres |-> resolved, unmatched |-> unmatched]
  ELSE LET input == Head(inputs)
           match == tryResolve(input)
       IN IF Trim(input) = <<>> THEN NormalizeLoop(Tail(inputs), resolved, unmatched)
          ELSE IF match # <<>>
          THEN NormalizeLoop(Tail(inputs),
                             IF match \in Range(resolved) THEN resolved
                             ELSE Append(resolved, match),
                             unmatched)
          ELSE NormalizeLoop(Tail(inputs), resolved, Append(unmatched, input))

normalizeGenres(inputs) == NormalizeLoop(inputs, <<>>, <<>>)

IdleNorm == [pc |-> "idle", seedGenres |-> <<>>, unmatched |-> <<>>]

\* options.useClientCredentials === false is useClientCredentials = FALSE;
\* token 0 is no token.  `used` lists the tokens requests were sent with,
\* userAttempt how the request with the user token ended.
IdleFetch ==
  [pc |-> "idle", hasSpotify |-> FALSE, sessionToken |-> 0,
   useClientCredentials |-> TRUE, userToken |-> 0, used |-> <<>>,
   userAttempt |-> "none"]

NoYearText ==
  [modifier |-> "none", kind |-> "none", sep |-> "none", suffix |-> "none",
   a |-> 0, b |-> 0, tail |-> FALSE, read |-> FALSE]

InitSide ==
  /\ genreInputs = <<>>
  /\ norm = IdleNorm
  /\ fj = IdleFetch
  /\ yearIn = NoYearText
  /\ yearOut = NoYearRange
  /\ InitSchedule

\* The call has no await: it runs from its first line to its return.
NormalizeGenres ==
  /\ norm.pc = "called"
  /\ LET out == normalizeGenres(genreInputs)
     IN norm' = [pc |-> "returned", seedGenres |-> out.seedGenres,
                 unmatched |-> out.unmatched]
  /\ UNCHANGED <<genreInputs, fetchVars, yearVars, schedVars>>
  /\ UNCHANGED <<pipelineVars, cacheVars>>

(***************************************************************************)
(* fetchSpotifyJson and getUserAccessToken                                 *)
(***************************************************************************)
SdkToken == 7

SessionToken == 8

\* After the try/catch around the user-token attempt: with
\* useClientCredentials === false the call throws, else it goes on to the
\* client-credential token.
AfterUserAttempt(f) ==
  IF f.useClientCredentials THEN [f EXCEPT !.pc = "fallback"]
  ELSE [f EXCEPT !.pc = "threw"]

\* getUserAccessToken: the token of the SDK client when there is a client
\* and it yields one (0: it yields none, or throws), else the session's
\* token, else null.  With a token the request is sent with it; without one
\* 'No user token available' is thrown into the catch.
FetchUserToken ==
  /\ fj.pc = "called"
  /\ \E sdk \in (IF fj.hasSpotify THEN {SdkToken, 0} ELSE {0}) :
       LET userToken == IF sdk # 0 THEN sdk ELSE fj.sessionToken
       IN fj' = IF userToken # 0
                THEN [fj EXCEPT !.userToken = userToken, !.used = <<userToken>>,
                                !.pc = "userRequest"]
                ELSE AfterUserAttempt(fj)
  /\ UNCHANGED <<normVars, yearVars, schedVars>>
  /\ UNCHANGED <<pipelineVars, cacheVars>>

\* The request with the user token answers 2xx: a body is returned; an
\* empty (falsy) body falls out of the try.
FetchUserRequestOk ==
  /\ fj.pc = "userRequest"
  /\ \E hasBody \in BOOLEAN :
       fj' = IF hasBody THEN [fj EXCEPT !.pc = "returned", !.userAttempt = "ok"]
             ELSE AfterUserAttempt([fj EXCEPT !.userAttempt = "empty"])
  /\ UNCHANGED <<normVars, yearVars, schedVars>>
  /\ UNCHANGED <<pipelineVars, cacheVars>>

\* The catch that goes on to the client-credential token whatever
\* useClientCredentials is.
FetchUserRequestFailAlwaysFallback ==
  /\ fj.pc = "userRequest"
  /\ fj' = [fj EXCEPT !.userAttempt = "failed", !.pc = "fallback"]
  /\ UNCHANGED <<normVars, yearVars, schedVars>>
  /\ UNCHANGED <<pipelineVars, cacheVars>>

\* The request with the user token fails (fetch rejects, or a non-2xx
\* status): the catch logs it.
FetchUserRequestFail ==
  /\ fj.pc = "userRequest"
  /\ fj' = AfterUserAttempt([fj EXCEPT !.userAttempt = "failed"])
  /\ UNCHANGED <<normVars, yearVars, schedVars>>
  /\ UNCHANGED <<pipelineVars, cacheVars>>

\* await this.getClientCredentialsToken()
FetchAskClientToken ==
  /\ fj.pc = "fallback" /\ cc.pc = "idle"
  /\ TokenCall

\* The token call returned: the request is sent with the client token.
FetchClientToken ==
  /\ fj.pc = "fallback" /\ cc.pc = "returned"
  /\ fj' = [fj EXCEPT !.pc = "clientRequest", !.used = Append(@, cc.token)]
  /\ UNCHANGED <<normVars, yearVars, schedVars>>
  /\ UNCHANGED <<pipelineVars, cacheVars>>

\* The token call threw: so does fetchSpotifyJson.
FetchClientTokenThrew ==
  /\ fj.pc = "fallback" /\ cc.pc = "threw"
  /\ fj' = [fj EXCEPT !.pc = "threw"]
  /\ UNCHANGED <<normVars, yearVars, schedVars>>
  /\ UNCHANGED <<pipelineVars, cacheVars>>

\* The request with the client token answers: its body is returned, or its
\* failure thrown.
FetchClientRequestDone ==
  /\ fj.pc = "clientRequest"
  /\ \E ok \in BOOLEAN :
       fj' = [fj EXCEPT !.pc = IF ok THEN "returned" ELSE "threw"]
  /\ UNCHANGED <<normVars, yearVars, schedVars>>
  /\ UNCHANGED <<pipelineVars, cacheVars>>

(***************************************************************************)
(* The year-range extractor                                                *)
(*                                                                         *)
(* Free text to an optional inclusive {from, to}: an explicit range first, *)
(* then a 4-digit decade, then a 2-digit decade; a decade is narrowed by   *)
(* early, mid or late.  The text is a sequence of code points.             *)
(***************************************************************************)
IsDigit(c) == c >= 48 /\ c <= 57

DigitsAt(s, i, n) ==
  i >= 1 /\ i + n - 1 <= Len(s) /\ \A k \in i..(i + n - 1) : IsDigit(s[k])

RECURSIVE NumAt(_, _, _)
NumAt(s, i, n) ==
  IF n = 0 THEN 0 ELSE 10 * NumAt(s, i, n - 1) + (s[i + n - 1] - 48)

\* "-", "~" and "to"
RangeSeparators == { <<45>>, <<126>>, <<116, 111>> }

\* The start of the second year of a range whose first year starts at i
\* (0: no range starts at i).
RangeEndAt(s, i) ==
  LET ends == {j \in (i + 5)..Len(s) :
                 /\ DigitsAt(s, j, 4)
                 /\ Trim(SubSeq(s, i + 4, j - 1)) \in RangeSeparators}
  IN IF DigitsAt(s, i, 4) /\ ends # {} THEN MinOf(ends) ELSE 0

\* "s", or the two syllables of the Korean decade suffix.
DecadeSuffixAt(s, i) ==
  \/ i <= Len(s) /\ s[i] = 115
  \/ i + 1 <= Len(s) /\ s[i] = 45380 /\ s[i + 1] = 45824

DecadeAt(s, i, n) ==
  /\ DigitsAt(s, i, n)
  /\ ~(i > 1 /\ IsDigit(s[i - 1]))
  /\ DecadeSuffixAt(s, i + n)

WordEarly == <<101, 97, 114, 108, 121>>

WordMid == <<109, 105, 100>>

WordLate == <<108, 97, 116, 101>>

\* The decade starting at d, narrowed by the modifier the text holds.
Narrow(d, s) ==
  IF Includes(s, WordEarly) THEN YearRange(d, d + 2)
  ELSE IF Includes(s, WordMid) THEN YearRange(d + 3, d + 6)
  ELSE IF Includes(s, WordLate) THEN YearRange(d + 7, d + 9)
  ELSE YearRange(d, d + 9)

\* Every two-digit decade taken as 19xx.
CenturyAlways1900(v) == 1900 + v

Century(v) == IF v <= 29 THEN 2000 + v ELSE 1900 + v

extractYearRange(text) ==
  LET s == ToLowerCase(text)
      ranges == {i \in 1..Len(s) : RangeEndAt(s, i) # 0}
      fourDigit == {i \in 1..Len(s) : DecadeAt(s, i, 4)}
      twoDigit == {i \in 1..Len(s) : DecadeAt(s, i, 2)}
  IN IF ranges # {}
     THEN YearRange(NumAt(s, MinOf(ranges), 4),
                    NumAt(s, RangeEndAt(s, MinOf(ranges)), 4))
     ELSE IF fourDigit # {} THEN Narrow(NumAt(s, MinOf(fourDigit), 4), s)
     ELSE IF twoDigit # {} THEN Narrow(Century(NumAt(s, MinOf(twoDigit), 2)), s)
     ELSE NoYearRange

\* The texts the extractor is given, by their parts: a modifier, a year
\* expression and a trailing word.
Digits2(v) == <<48 + (v \div 10), 48 + (v % 10)>>

Digits4(y) == Digits2(y \div 100) \o Digits2(y % 100)

ModifierText(m) ==
  CASE m = "early" -> WordEarly \o <<32>>
    [] m = "mid" -> WordMid \o <<32>>
    [] m = "late" -> WordLate \o <<32>>
    [] OTHER -> <<>>

SeparatorText(sep) ==
  CASE sep = "dash" -> <<45>>
    [] sep = "tilde" -> <<126>>
    [] OTHER -> <<32, 116, 111, 32>>

SuffixText(suffix) == IF suffix = "s" THEN <<115>> ELSE <<45380, 45824>>

TailJazz == <<32, 106, 97, 122, 122>>

YearText(in) ==
  ModifierText(in.modifier)
  \o (CASE in.kind = "range" -> Digits4(in.a) \o SeparatorText(in.sep) \o Digits4(in.b)
        [] in.kind = "decade4" -> Digits4(in.a) \o SuffixText(in.suffix)
        [] in.kind = "decade2" -> Digits2(in.a) \o SuffixText(in.suffix)
        [] OTHER -> <<>>)
  \o (IF in.tail THEN TailJazz ELSE <<>>)

Modifiers == {"none", "early", "mid", "late"}

YearInputs ==
  { [NoYearText EXCEPT !.modifier = m, !.tail = t] : m \in Modifiers, t \in BOOLEAN }
  \cup { [modifier |-> m, kind |-> "range", sep |-> sep, suffix |-> "none",
          a |-> r[1], b |-> r[2], tail |-> t, read |-> FALSE] :
           m \in Modifiers, sep \in {"dash", "tilde", "to"},
           r \in { <<1990, 1999>>, <<2010, 2015>> }, t \in BOOLEAN }
  \cup { [modifier |-> m, kind |-> "decade4", sep |-> "none", suffix |-> x,
          a |-> d, b |-> 0, tail |-> t, read |-> FALSE] :
           m \in Modifiers, x \in {"s", "korean"}, d \in {1980, 1990, 2010},
           t \in BOOLEAN }
  \cup { [modifier |-> m, kind |-> "decade2", sep |-> "none", suffix |-> x,
          a |-> v, b |-> 0, tail |-> t, read |-> FALSE] :
           m \in Modifiers, x \in {"s", "korean"}, v \in {0, 10, 20, 30, 90},
           t \in BOOLEAN }

\* The extractor runs on the text, and the caller hands its result to
\* buildHybridRecommendations as params.yearRange.
ExtractYearRange ==
  /\ pc = "start"
  /\ ~yearIn.read
  /\ yearOut' = extractYearRange(YearText(yearIn))
  /\ params' = [params EXCEPT !.yearRange = yearOut']
  /\ yearIn' = [yearIn EXCEPT !.read = TRUE]
  /\ UNCHANGED <<pc, limit, seeds, ai, artistTracks, queries, qi, unique, candidates,
                 call, artistGenresMap, result, relaxed, outcome, hist>>
  /\ UNCHANGED <<cacheVars, normVars, fetchVars, schedVars>>

(***************************************************************************)
(* POST /api/generate-scheduled-playlist                                   *)
(*                                                                         *)
(* The handler of src/server/routes.ts on one enabled daily schedule: the  *)
(* active schedules are read, shouldRunSchedule is asked, the playlist is  *)
(* generated and stored, and lastRun is written.  Each await is a point    *)
(* where another request's handler may run.  The weekly and monthly        *)
(* branches of shouldRunSchedule are not taken by a daily schedule.        *)
(***************************************************************************)
MaxDays == 2

\* Within 5 minutes of the scheduled time, and, when lastRun is set, lastRun
\* is not of today.
shouldRunSchedule(s, c) ==
  IF c.phase # "in" THEN FALSE
  ELSE IF s.lastRun # NoLastRun THEN s.lastRun # c.day
  ELSE TRUE

\* A request arrives: storage.getActiveSchedules() is awaited.
SchedPost(p) ==
  /\ sreq[p] \in {"idle", "done"}
  /\ sreq' = [sreq EXCEPT ![p] = "listing"]
  /\ UNCHANGED <<schedule, generatedPlaylists, clock>>
  /\ UNCHANGED <<pipelineVars, cacheVars, normVars, fetchVars, yearVars>>

\* The loop over the active schedules: a schedule that should run goes on to
\* the awaits of the generation (analyzePreferences, normalizeGenres,
\* getRecommendations, ...).
SchedCheck(p) ==
  /\ sreq[p] = "listing"
  /\ sreq' = [sreq EXCEPT ![p] =
                IF schedule.enabled /\ shouldRunSchedule(schedule, clock)
                THEN "generating" ELSE "done"]
  /\ UNCHANGED <<schedule, generatedPlaylists, clock>>
  /\ UNCHANGED <<pipelineVars, cacheVars, normVars, fetchVars, yearVars>>

\* tracks.length === 0: the schedule is skipped (`continue`).
SchedNoTracks(p) ==
  /\ sreq[p] = "generating"
  /\ sreq' = [sreq EXCEPT ![p] = "done"]
  /\ UNCHANGED <<schedule, generatedPlaylists, clock>>
  /\ UNCHANGED <<pipelineVars, cacheVars, normVars, fetchVars, yearVars>>

\* There are tracks: storage.createGeneratedPlaylist stores the playlist.
SchedSave(p) ==
  /\ sreq[p] = "generating"
  /\ generatedPlaylists' = Append(generatedPlaylists, [by |-> p, day |-> clock.day])
  /\ sreq' = [sreq EXCEPT ![p] = "saved"]
  /\ UNCHANGED <<schedule, clock>>
  /\ UNCHANGED <<pipelineVars, cacheVars, normVars, fetchVars, yearVars>>

\* createGeneratedPlaylist fails: the error is caught and the run goes on.
SchedSaveFail(p) ==
  /\ sreq[p] = "generating"
  /\ sreq' = [sreq EXCEPT ![p] = "saved"]
  /\ UNCHANGED <<schedule, generatedPlaylists, clock>>
  /\ UNCHANGED <<pipelineVars, cacheVars, normVars, fetchVars, yearVars>>

\* storage.updateScheduleLastRun(schedule.id): lastRun = new Date().
SchedUpdateLastRun(p) ==
  /\ sreq[p] = "saved"
  /\ schedule' = [schedule EXCEPT !.lastRun = clock.day]
  /\ sreq' = [sreq EXCEPT ![p] = "done"]
  /\ UNCHANGED <<generatedPlaylists, clock>>
  /\ UNCHANGED <<pipelineVars, cacheVars, normVars, fetchVars, yearVars>>

\* Time passes: into the window, out of it, and on to the next day.
ClockAdvance ==
  /\ \/ clock.phase = "before" /\ clock' = [clock EXCEPT !.phase = "in"]
     \/ clock.phase = "in" /\ clock' = [clock EXCEPT !.phase = "after"]
     \/ /\ clock.phase = "after" /\ clock.day < MaxDays
        /\ clock' = [day |-> clock.day + 1, phase |-> "before"]
  /\ UNCHANGED <<schedule, generatedPlaylists, sreq>>
  /\ UNCHANGED <<pipelineVars, cacheVars, normVars, fetchVars, yearVars>>

(***************************************************************************)
(* Specifications                                                          *)
(***************************************************************************)
vars == <<pipelineVars, cacheVars, sideVars>>

Init == InitCaches /\ InitSide /\ \E p \in ParamSets : InitPipeline(p)

Next == PipelineStep \/ CatalogStep \/ CallLost

Spec == Init /\ [][Next]_vars

\* The caches under the calls that read and write them, and the clock.
InitCache ==
  /\ InitCaches
  /\ InitSide
  /\ InitPipeline([limit |-> NoLimit, seedArtistIds |-> <<>>, userTopArtistIds |-> <<>>,
                   genres |-> <<>>, keywords |-> <<>>, yearRange |-> NoYearRange])

\* The three caches share no state, so a behaviour exercises one of them:
\* once a cache has been read, the calls that follow are calls on it.
OnlyCache(c) == \A d \in Caches \ {c} : ~lastRead[d].read

CacheResolve ==
  \/ OnlyCache("artist") /\ ResolveCall(1)
  \/ OnlyCache("artist") /\ ResolveNext(1)
  \/ OnlyCache("artist") /\ ResolveSearchOk(1)
  \/ OnlyCache("artist") /\ ResolveSearchFail(1)
  \/ OnlyCache("artist") /\ ResolveTopTracksOk(1)
  \/ OnlyCache("artist") /\ ResolveTopTracksFail(1)
  \/ OnlyCache("artist") /\ ResolveReturn(1)

CacheToken ==
  \/ OnlyCache("token") /\ TokenCall
  \/ OnlyCache("token") /\ TokenFetchOk
  \/ OnlyCache("token") /\ TokenFetchFail

CacheTop ==
  \/ OnlyCache("top") /\ TopCall
  \/ OnlyCache("top") /\ TopFetchOk
  \/ OnlyCache("top") /\ TopFetchFail

NextCache == Tick \/ CacheResolve \/ CacheToken \/ CacheTop

SpecCache == InitCache /\ [][NextCache]_vars

\* Two requests resolving the same name, whose entry has just expired.
RaceTerms == { <<RawIU>>, <<RawIUSpaced>> }

InitRace ==
  /\ InitSide
  /\ InitPipeline([limit |-> NoLimit, seedArtistIds |-> <<>>, userTopArtistIds |-> <<>>,
                   genres |-> <<>>, keywords |-> <<>>, yearRange |-> NoYearRange])
  /\ now = ARTIST_CACHE_TTL
  /\ ticks = 0
  /\ cachedArtistSeeds =
       [k \in ArtistKeys |->
          IF k = KeyIU
          THEN [artistId |-> 2, topTrackId |-> 5, name |-> NameIU,
                expiresAt |-> ARTIST_CACHE_TTL]
          ELSE NoEntry]
  /\ clientCredentialCache = NoToken
  /\ spotifyTopCache = NoTopCache
  /\ \E t1 \in RaceTerms, t2 \in RaceTerms :
       rs = [p \in {1, 2} |->
               [IdleResolver EXCEPT !.pc = "loop", !.terms = IF p = 1 THEN t1 ELSE t2]]
  /\ cc = [pc |-> "idle", token |-> 0]
  /\ top = [pc |-> "idle", now |-> 0, data |-> 0]
  /\ lastRead = NoRead

RaceStep(p) ==
  \/ ResolveNext(p) \/ ResolveSearchOk(p) \/ ResolveSearchFail(p)
  \/ ResolveTopTracksOk(p) \/ ResolveTopTracksFail(p) \/ ResolveReturn(p)

NextRace == Tick \/ RaceStep(1) \/ RaceStep(2)

SpecRace == InitRace /\ [][NextRace]_vars

\* One resolveArtistSeeds call on a longer list of mentions, over a cache
\* that holds fresh entries for some of the names.
ResolveTermLists ==
  { <<RawIU, RawAb, RawCd, RawEf, RawAi>>,
    <<RawAi, RawIU, RawAb, RawCd, RawEf>>,
    <<RawIU, RawAb, RawCd>>,
    <<RawIUSpaced, RawIU, <<>>, RawAb>> }

CachedEntryFor(k) ==
  CASE k = KeyIU -> [artistId |-> 2, topTrackId |-> 5, name |-> NameIU,
                     expiresAt |-> ARTIST_CACHE_TTL]
    [] k = KeyAb -> [artistId |-> 1, topTrackId |-> 1, name |-> NameAb,
                     expiresAt |-> ARTIST_CACHE_TTL]
    [] k = KeyCd -> [artistId |-> 3, topTrackId |-> 7, name |-> NameCd,
                     expiresAt |-> ARTIST_CACHE_TTL]
    [] k = KeyEf -> [artistId |-> 4, topTrackId |-> 0, name |-> NameEf,
                     expiresAt |-> ARTIST_CACHE_TTL]
    [] OTHER -> [artistId |-> 2, topTrackId |-> 6, name |-> NameIU,
                 expiresAt |-> ARTIST_CACHE_TTL]

InitResolve ==
  /\ InitSide
  /\ InitPipeline([limit |-> NoLimit, seedArtistIds |-> <<>>, userTopArtistIds |-> <<>>,
                   genres |-> <<>>, keywords |-> <<>>, yearRange |-> NoYearRange])
  /\ now = 0
  /\ ticks = 0
  /\ \E cachedKeys \in SUBSET ArtistKeys :
       cachedArtistSeeds =
         [k \in ArtistKeys |-> IF k \in cachedKeys THEN CachedEntryFor(k) ELSE NoEntry]
  /\ clientCredentialCache = NoToken
  /\ spotifyTopCache = NoTopCache
  /\ \E terms \in ResolveTermLists :
       rs = [p \in {1, 2} |->
               IF p = 1 THEN [IdleResolver EXCEPT !.pc = "loop", !.terms = terms]
               ELSE IdleResolver]
  /\ cc = [pc |-> "idle", token |-> 0]
  /\ top = [pc |-> "idle", now |-> 0, data |-> 0]
  /\ lastRead = NoRead

NextResolve ==
  \/ ResolveNext(1) \/ ResolveSearchOk(1) \/ ResolveSearchFail(1)
  \/ ResolveTopTracksOk(1) \/ ResolveTopTracksFail(1) \/ ResolveReturn(1)

SpecResolve == InitResolve /\ [][NextResolve]_vars

\* One normalizeGenres call on a list of up to MaxGenreInputs terms.
MaxGenreInputs == 4

TermRock == <<82, 111, 99, 107>>

TermJazzSpaced == <<32, 106, 97, 122, 122, 32>>

TermBallad == <<98, 97, 108, 108, 97, 100>>

TermKoreanRock == <<47197>>

TermHiphop == <<104, 105, 112, 104, 111, 112>>

TermKPop == <<75, 45, 80, 111, 112>>

TermXyz == <<120, 121, 122>>

TermBlank == <<32, 32>>

TermAccent == <<769>>

TermPop == <<112, 111, 112>>

GenreTerms ==
  { TermRock, TermJazzSpaced, TermBallad, TermKoreanRock, TermHiphop, TermKPop,
    TermXyz, TermBlank, TermAccent, TermPop, <<>> }

GenreInputLists ==
  UNION { [1..n -> GenreTerms] : n \in 0..MaxGenreInputs }

InitNormalize ==
  /\ InitCaches
  /\ InitPipeline([limit |-> NoLimit, seedArtistIds |-> <<>>, userTopArtistIds |-> <<>>,
                   genres |-> <<>>, keywords |-> <<>>, yearRange |-> NoYearRange])
  /\ genreInputs \in GenreInputLists
  /\ norm = [IdleNorm EXCEPT !.pc = "called"]
  /\ fj = IdleFetch
  /\ yearIn = NoYearText
  /\ yearOut = NoYearRange
  /\ InitSchedule

NextNormalize == NormalizeGenres

SpecNormalize == InitNormalize /\ [][NextNormalize]_vars

\* normalizeGenres on each key of the alias table, alone and after a term
\* that matches nothing.
AliasKeys ==
  UNION { Range(GENRE_ALIAS_ENTRIES[i].keys) : i \in 1..Len(GENRE_ALIAS_ENTRIES) }

AliasInputLists == { <<k>> : k \in AliasKeys } \cup { <<TermXyz, k>> : k \in AliasKeys }

InitAlias ==
  /\ InitCaches
  /\ InitPipeline([limit |-> NoLimit, seedArtistIds |-> <<>>, userTopArtistIds |-> <<>>,
                   genres |-> <<>>, keywords |-> <<>>, yearRange |-> NoYearRange])
  /\ genreInputs \in AliasInputLists
  /\ norm = [IdleNorm EXCEPT !.pc = "called"]
  /\ fj = IdleFetch
  /\ yearIn = NoYearText
  /\ yearOut = NoYearRange
  /\ InitSchedule

SpecAlias == InitAlias /\ [][NextNormalize]_vars

\* One fetchSpotifyJson call, with or without an SDK client, a session
\* token and useClientCredentials: false, over an empty or a filled token
\* cache.
CachedToken == [token |-> 2, expiresAt |-> 3600 * 1000]

InitFetch ==
  /\ InitPipeline([limit |-> NoLimit, seedArtistIds |-> <<>>, userTopArtistIds |-> <<>>,
                   genres |-> <<>>, keywords |-> <<>>, yearRange |-> NoYearRange])
  /\ now = 0
  /\ ticks = 0
  /\ cachedArtistSeeds = [k \in ArtistKeys |-> NoEntry]
  /\ clientCredentialCache \in {NoToken, CachedToken}
  /\ spotifyTopCache = NoTopCache
  /\ rs = [p \in {1, 2} |-> IdleResolver]
  /\ cc = [pc |-> "idle", token |-> 0]
  /\ top = [pc |-> "idle", now |-> 0, data |-> 0]
  /\ lastRead = NoRead
  /\ genreInputs = <<>>
  /\ norm = IdleNorm
  /\ yearIn = NoYearText
  /\ yearOut = NoYearRange
  /\ InitSchedule
  /\ \E hasSpotify \in BOOLEAN, sessionToken \in {0, SessionToken},
        useClientCredentials \in BOOLEAN :
       fj = [IdleFetch EXCEPT !.pc = "called", !.hasSpotify = hasSpotify,
                              !.sessionToken = sessionToken,
                              !.useClientCredentials = useClientCredentials]

NextFetch ==
  \/ FetchUserToken \/ FetchUserRequestOk \/ FetchUserRequestFail
  \/ FetchAskClientToken \/ TokenFetchOk \/ TokenFetchFail
  \/ FetchClientToken \/ FetchClientTokenThrew \/ FetchClientRequestDone

SpecFetch == InitFetch /\ [][NextFetch]_vars

\* The extractor on one text, then the run that is given its result.
YearParams ==
  [limit |-> 2, seedArtistIds |-> <<1>>, userTopArtistIds |-> <<>>,
   genres |-> <<GenreRock>>, keywords |-> <<>>, yearRange |-> NoYearRange]

InitYear ==
  /\ InitCaches
  /\ InitPipeline(YearParams)
  /\ genreInputs = <<>>
  /\ norm = IdleNorm
  /\ fj = IdleFetch
  /\ yearIn \in YearInputs
  /\ yearOut = NoYearRange
  /\ InitSchedule

NextYear ==
  \/ ExtractYearRange
  \/ yearIn.read /\ Next

SpecYear == InitYear /\ [][NextYear]_vars

\* Runs whose genres and keywords give more queries than the loop takes.
GenreJazz == <<106, 97, 122, 122>>

GenrePop == <<112, 111, 112>>

GenreSoul == <<115, 111, 117, 108>>

ManyGenres == <<GenreRock, GenreJazz, GenrePop, GenreSoul>>

ManyKeywords == <<TitleAb, <<32>>, TitleLove, TitleX>>

QueryParamSets ==
  [limit : {1, NoLimit},
   seedArtistIds : { <<>>, <<1>> },
   userTopArtistIds : { <<>> },
   genres : { <<>>, ManyGenres },
   keywords : { <<>>, ManyKeywords },
   yearRange : { NoYearRange, YearRange(1990, 1999) }]

InitQueries == InitCaches /\ InitSide /\ \E p \in QueryParamSets : InitPipeline(p)

SpecQueries == InitQueries /\ [][Next]_vars

\* Runs with long lists of seed artists and of the user's top artists.
SeedParamSets ==
  [limit : {2},
   seedArtistIds : { <<>>, <<1, 2>>, <<3, 0, 4>>, <<3, 4, 5, 6, 7>>, <<3, 3, 4, 5, 6, 7, 8>> },
   userTopArtistIds : { <<>>, <<1>>, <<8, 9>>, <<3, 1, 2, 8, 9, 10>> },
   genres : { <<GenreRock>> },
   keywords : { <<>> },
   yearRange : { NoYearRange }]

InitSeeds == InitCaches /\ InitSide /\ \E p \in SeedParamSets : InitPipeline(p)

SpecSeeds == InitSeeds /\ [][Next]_vars

\* Two requests to the scheduled generation, and the clock.
InitSched ==
  /\ InitCaches
  /\ InitPipeline([limit |-> NoLimit, seedArtistIds |-> <<>>, userTopArtistIds |-> <<>>,
                   genres |-> <<>>, keywords |-> <<>>, yearRange |-> NoYearRange])
  /\ genreInputs = <<>>
  /\ norm = IdleNorm
  /\ fj = IdleFetch
  /\ yearIn = NoYearText
  /\ yearOut = NoYearRange
  /\ schedule \in [enabled : BOOLEAN, frequency : {"daily"}, lastRun : {NoLastRun}]
  /\ generatedPlaylists = <<>>
  /\ sreq = [p \in {1, 2} |-> "idle"]
  /\ clock = [day |-> 1, phase |-> "before"]

NextSched ==
  \/ \E p \in {1, 2} :
       \/ SchedPost(p) \/ SchedCheck(p) \/ SchedNoTracks(p)
       \/ SchedSave(p) \/ SchedSaveFail(p) \/ SchedUpdateLastRun(p)
  \/ ClockAdvance

SpecSched == InitSched /\ [][NextSched]_vars

(***************************************************************************)
(* The selection stage alone: scoring and selection applied to a drawn     *)
(* candidate pool.  The pools drawn are pools the generation stage can     *)
(* hand over: topCount tracks from the top-tracks path (artist ids kept),  *)
(* then searchCount tracks from the search path (names only), the search   *)
(* having run only when the first were fewer than limit and having         *)
(* stopped at 2 x limit.  Track i is by artist ((i - 1) mod artistCount)   *)
(* + 1; the artists 1..rockCount are tagged rock.                          *)
(***************************************************************************)
MaxSelLimit == 12

MaxTopTracks == 11

MaxSearchTracks == 3

SynthName(artist) == <<78, 48 + artist>>

SynthItem(i, artistCount) ==
  Item(i, TitleX, <<Artist(((i - 1) % artistCount) + 1,
                           SynthName(((i - 1) % artistCount) + 1))>>,
       1985 + i, (i * 37) % 101)

SynthPool(topCount, searchCount, artistCount) ==
  [i \in 1..(topCount + searchCount) |->
     IF i <= topCount THEN TopTrackToTrack(SynthItem(i, artistCount))
     ELSE SearchItemToTrack(SynthItem(i, artistCount))]

SynthGenres(artistCount, rockCount) ==
  GenresMapOf([a \in 1..artistCount |->
                 [id |-> a,
                  genres |-> IF a <= rockCount THEN <<TagClassicRock>> ELSE <<TagKPop>>]])

SelectParams(l, yr) ==
  [limit |-> l, seedArtistIds |-> <<>>, userTopArtistIds |-> <<>>,
   genres |-> <<>>, keywords |-> <<>>, yearRange |-> yr]

InitSelect ==
  \E l \in 1..MaxSelLimit, topCount \in 0..MaxTopTracks,
     searchCount \in 0..MaxSearchTracks :
    \E artistCount \in 1..Max(1, topCount + searchCount) :
      \E rockCount \in 0..artistCount, yr \in {NoYearRange} :
        /\ topCount <= 15
        /\ searchCount > 0 => (topCount < l /\ topCount + searchCount <= 2 * l)
        /\ pc = "score"
        /\ params = SelectParams(l, yr)
        /\ limit = Limit(SelectParams(l, yr))
        /\ seeds = <<>>
        /\ ai = 1
        /\ artistTracks = <<>>
        /\ queries = <<>>
        /\ qi = 1
        /\ unique = <<>>
        /\ candidates = SynthPool(topCount, searchCount, artistCount)
        /\ call = NoCall
        /\ artistGenresMap = SynthGenres(artistCount, rockCount)
        /\ result = <<>>
        /\ relaxed = FALSE
        /\ outcome = "none"
        /\ hist = NoHist
        /\ InitCaches /\ InitSide

NextSelect == ScoreAndSelect

SpecSelect == InitSelect /\ [][NextSelect]_vars

(***************************************************************************)
(* Properties                                                              *)
(***************************************************************************)
Finished == pc = "done"

Generated == pc \in {"enrich", "score", "done"}

\* C1: the list returned is no longer than the requested limit (as clamped
\* to 1..100, which leaves a requested limit of 1..100 as it is) and holds
\* no two tracks with the same id.
C1_ResultWithinLimit ==
  Finished =>
    /\ limit \in 1..100
    /\ (params.limit \in 1..100 => limit = params.limit)
    /\ Len(result) <= limit
    /\ NoDup(Ids(result))

\* C1 witness: a run some of whose sub-calls failed returns a full list cut
\* from a larger pool.
C1_Witness ==
  /\ Finished /\ hist.failed # {}
  /\ Len(result) = limit /\ Len(candidates) > limit

\* C2 as claimed: a run that ends with an empty candidate pool ends in a
\* NoCandidates failure, not in a returned list.
C2_EmptyPoolIsNoCandidates ==
  (Finished /\ candidates = <<>>) => outcome = "NoCandidates"

\* C3: no pool the run builds holds two tracks with the same id, whichever
\* path contributed an id.
C3_PoolNoDuplicateIds ==
  /\ NoDup(Ids(artistTracks))
  /\ NoDup(Ids(unique))
  /\ NoDup(Ids(candidates))

\* C3 witness: an id was answered on both paths and the pool is complete.
C3_Witness ==
  /\ Generated /\ Len(candidates) >= 3
  /\ hist.returnedTop \cap hist.returnedSearch \cap Range(Ids(candidates)) # {}

\* C4: a failed sub-call is never the run's failure; the calls after it are
\* still made (unless the pool is full); and every track a successful call
\* answered is in the pool unless the pool reached its cap.
C4_PartialFailureSkipped ==
  /\ outcome = "threw" => (hist.failed = {} /\ hist.issuedTop = {})
  /\ Generated =>
       /\ \A i \in 1..Len(seeds) :
            i \in hist.issuedTop \/ Len(artistTracks) >= 3 * Len(seeds)
       /\ \A j \in 1..Len(queries) :
            j \in hist.issuedSearch \/ Len(candidates) >= 2 * limit
       /\ \A id \in hist.returnedTop :
            id \in Range(Ids(candidates)) \/ Len(artistTracks) >= 3 * Len(seeds)
       /\ \A id \in hist.returnedSearch :
            id \in Range(Ids(candidates)) \/ Len(candidates) >= 2 * limit

\* C4 witness: a top-tracks fetch, a search query and the genre batch have
\* failed, later calls answered, and the run returned tracks.
C4_Witness ==
  /\ Finished /\ result # <<>>
  /\ {<<"top", 1>>, <<"search", 1>>, <<"genres", 1>>} \subseteq hist.failed
  /\ 2 \in hist.issuedTop /\ hist.returnedTop # {}
  /\ 2 \in hist.issuedSearch /\ hist.returnedSearch # {}

\* The artist of a track: the first artist the track names.
FirstArtistName(t) == IF Len(t.artists) > 0 THEN t.artists[1] ELSE <<>>

DistinctArtists(tracks) ==
  \A i, j \in 1..Len(tracks) :
    i # j => FirstArtistName(tracks[i]) # FirstArtistName(tracks[j])

\* C5 as claimed: from a pool of more than limit tracks, each by a different
\* artist, the primary pass alone returns exactly limit tracks by different
\* artists.
C5_Original ==
  (Finished /\ DistinctArtists(candidates) /\ Len(candidates) > limit) =>
    (~relaxed /\ Len(result) = limit /\ DistinctArtists(result))

\* The candidates the pre-filter leaves in the current state.
FilteredNow == PreFilter(candidates, artistGenresMap, limit)

\* C5 as amended: the same, provided the pre-filter leaves at least limit
\* candidates to select from.
C5_PrimaryPassFillsLimit ==
  (/\ Finished /\ DistinctArtists(candidates) /\ Len(candidates) > limit
   /\ Len(FilteredNow) >= limit) =>
    (~relaxed /\ Len(result) = limit /\ DistinctArtists(result))

\* C5 witness: such a pool, which the pre-filter has pruned, was selected from.
C5_Witness ==
  /\ Finished /\ DistinctArtists(candidates) /\ Len(candidates) > limit
  /\ LET f == FilteredNow IN Len(f) >= limit /\ Len(f) < Len(candidates)
  /\ Len(result) = limit

\* The cap keys of a list of tracks, and the tracks of a list under a key.
KeysOf(tracks) == {CapKey(tracks[i]) : i \in 1..Len(tracks)}

TracksOfKey(tracks, k) == {i \in 1..Len(tracks) : CapKey(tracks[i]) = k}

\* C6 as claimed: the relaxed pass is used exactly when the primary pass
\* selected fewer than 70% of limit tracks (a cap-1 pass selects one track
\* per cap key, up to limit), and in particular whenever the pool has fewer
\* than limit / 2 distinct artists.
C6_Original ==
  Finished =>
    LET primaryCount == Min(limit, Cardinality(KeysOf(FilteredNow)))
    IN /\ relaxed <=> (10 * primaryCount < 7 * limit)
       /\ (2 * Cardinality(KeysOf(candidates)) < limit) => relaxed

\* C6 as amended: the relaxed pass is used exactly when the primary pass
\* selected fewer than floor(0.7 x limit) tracks; the list returned is then
\* a cap-2 selection, and the cap-1 selection otherwise.
C6_RelaxedBelowFloor ==
  Finished =>
    LET f == FilteredNow
        keys == KeysOf(f)
        primaryCount == Min(limit, Cardinality(keys))
    IN /\ relaxed <=> (primaryCount < (7 * limit) \div 10)
       /\ \A k \in keys :
            Cardinality(TracksOfKey(result, k)) <= (IF relaxed THEN 2 ELSE 1)
       /\ ~relaxed => Len(result) = primaryCount
       /\ relaxed =>
            \/ Len(result) = limit
            \/ \A k \in keys :
                 Cardinality(TracksOfKey(result, k)) =
                   Min(2, Cardinality(TracksOfKey(f, k)))

\* C6 witness: the primary pass fell short of floor(0.7 x limit) and the
\* relaxed pass took a second track of an artist.
C6_Witness ==
  /\ Finished /\ relaxed
  /\ \E k \in KeysOf(result) : Cardinality(TracksOfKey(result, k)) = 2

\* C7 as claimed: the list returned holds at most cap tracks of any one
\* artist, cap being 1 when the primary pass is kept and 2 when the relaxed
\* pass is used.
C7_PerArtistCap ==
  Finished =>
    \A a \in 1..3 :
      Cardinality({i \in 1..Len(result) : CatalogFirstArtist(result[i].id) = a})
        <= (IF relaxed THEN 2 ELSE 1)

\* C8: in each of the three caches, a read made at or past the expiry of
\* the entry it finds never serves that entry; the call goes on as on a miss.
C8_ExpiredReadIsMiss ==
  \A c \in Caches : lastRead[c].expired => ~lastRead[c].hit

\* An artist entry was written, the clock passed its expiry, and the next
\* resolveArtistSeeds call read it and went on to the artist search.
C8_Witness ==
  /\ lastRead["artist"].expired /\ ~lastRead["artist"].hit
  /\ rs[1].pc = "search"
  /\ \E k \in ArtistKeys :
       cachedArtistSeeds[k] # NoEntry /\ cachedArtistSeeds[k].expiresAt <= now

\* C9 as claimed: while two calls refresh the same expired key, every write
\* leaves a complete entry of the writer, and no write puts an entry with an
\* earlier expiry in the place of the one that is there.
C9_LaterWriteNeverOlder ==
  [][\A k \in ArtistKeys :
       cachedArtistSeeds'[k] # cachedArtistSeeds[k] =>
         /\ \E p \in {1, 2} :
              \E t \in ArtistTopTrackAnswers(rs[p].firstArtist.id) :
                cachedArtistSeeds'[k] = ArtistEntry(rs[p], t)
         /\ cachedArtistSeeds'[k].expiresAt >= cachedArtistSeeds[k].expiresAt]_vars

\* C11: resolveArtistSeeds returns at most 3 artist ids, at most 2 top-track
\* ids and at most 3 names, and no list holds an element twice.
C11_SeedListsCapped ==
  rs[1].pc = "returned" =>
    /\ Len(rs[1].artistSeeds) <= 3 /\ NoDup(rs[1].artistSeeds)
    /\ Len(rs[1].trackSeeds) <= 2 /\ NoDup(rs[1].trackSeeds)
    /\ Len(rs[1].resolvedNames) <= 3 /\ NoDup(rs[1].resolvedNames)

\* A call that took four or more names through the loop returned full lists.
C11_Witness ==
  /\ rs[1].pc = "returned"
  /\ Cardinality(rs[1].seenArtists) >= 4
  /\ Len(rs[1].artistSeeds) = 3
  /\ Len(rs[1].trackSeeds) = 2
  /\ Len(rs[1].resolvedNames) = 3

IsPrefix(a, b) == Len(a) <= Len(b) /\ SubSeq(b, 1, Len(a)) = a

\* C12: the answer to a term's search or top-tracks request, failure or no
\* hit included, leaves the call in the loop (or on the way to the top
\* tracks), keeps what was resolved so far, and moves on to the next term
\* unless four artists are resolved; and the return holds the first distinct
\* artists resolved, up to the cap.
C12_TermFailureSkipped ==
  [][LET r == rs[1]
         r2 == rs'[1]
     IN /\ (r.pc \in {"search", "topTracks"} /\ r2 # r) =>
             /\ r2.pc \in {"loop", "topTracks"}
             /\ IsPrefix(r.artistSeeds, r2.artistSeeds)
             /\ IsPrefix(r.trackSeeds, r2.trackSeeds)
             /\ IsPrefix(r.resolvedNames, r2.resolvedNames)
             /\ r2.pc = "loop" =>
                  \/ r2.i = r.i + 1
                  \/ Len(r2.artistSeeds) >= 4 /\ r2.i = Len(r.terms) + 1
        /\ (r.pc = "loop" /\ r2.pc = "returned") =>
             \A n \in 1..Min(3, Len(Dedup(r.artistSeeds))) :
               Dedup(r.artistSeeds)[n] \in Range(r2.artistSeeds)]_vars

\* Of three names over an empty cache the second one was not resolved, and
\* the first and the third are in the result.
C12_Witness ==
  /\ rs[1].pc = "returned"
  /\ rs[1].terms = <<RawIU, RawAb, RawCd>>
  /\ cachedArtistSeeds[KeyAb] = NoEntry
  /\ rs[1].artistSeeds = <<2, 3>>

\* C13: every seed normalizeGenres returns is a member of the seed
\* vocabulary, and no term it lists as unmatched is, once sanitized, one of
\* the seeds it returns.
C13_SeedsInVocabulary ==
  norm.pc = "returned" =>
    /\ \A n \in 1..Len(norm.seedGenres) : SeedSetHas(norm.seedGenres[n])
    /\ \A n \in 1..Len(norm.unmatched) :
         sanitizeGenre(norm.unmatched[n]) \notin Range(norm.seedGenres)

\* A call resolved one term through the alias table and one by containment,
\* and listed as unmatched a term whose alias is not a seed.
C13_Witness ==
  /\ norm.pc = "returned"
  /\ genreInputs = <<TermHiphop, TermBallad, TermKPop>>
  /\ Len(norm.seedGenres) = 2
  /\ norm.unmatched = <<TermBallad>>

\* C14 as claimed: the seed list returned is never empty, and when no term
\* resolves it is the first two fallback seeds.
C14_NeverEmptySeeds ==
  norm.pc = "returned" =>
    /\ norm.seedGenres # <<>>
    /\ (\A n \in 1..Len(genreInputs) : tryResolve(genreInputs[n]) = <<>>) =>
         norm.seedGenres = SubSeq(FALLBACK_SEEDS, 1, 2)

\* C15 as claimed: the seed list returned has no repeated seed and at most
\* three entries.
C15_SeedsDedupedAndCapped ==
  norm.pc = "returned" =>
    NoDup(norm.seedGenres) /\ Len(norm.seedGenres) <= 3

\* C16 as claimed: the answer to one artist's top-tracks request adds at
\* most 3 tracks to the tracks collected from the seed artists.
C16_AtMostThreePerArtist ==
  [][Len(artistTracks') <= Len(artistTracks) + 3]_vars

GenresFailed == <<"genres", 1>> \in hist.failed

\* C17: after a failed genre batch fetch the run neither throws nor stops:
\* the map is empty, scoring is reached, no candidate counts as a genre
\* match (each gets the no-match genre score and the pre-filter keeps the
\* whole pool), and the run returns the selection made on that footing.
C17_GenreFailureIsNoSignal ==
  GenresFailed =>
    /\ pc \in {"score", "done"}
    /\ artistGenresMap = EmptyMap
    /\ \A i \in 1..Len(candidates) :
         genreScore(candidates[i], artistGenresMap) = -700
    /\ PreFilter(candidates, artistGenresMap, limit) = candidates
    /\ pc = "done" =>
         /\ outcome = "returned"
         /\ result = FinalPick(Scored(candidates, EmptyMap, params.yearRange,
                                      params.keywords), limit).tracks

\* The genre fetch failed for a pool with artist ids, and the run returned
\* tracks.
C17_Witness ==
  /\ GenresFailed
  /\ pc = "done"
  /\ AllArtistIds(candidates) # <<>>
  /\ result # <<>>

\* C18 as claimed: the first request carries the user token when there is
\* one; a client-credential token is asked for only when there is no user
\* token; and with useClientCredentials === false none is ever asked for.
C18_Original ==
  /\ (fj.userToken # 0 /\ fj.used # <<>>) => fj.used[1] = fj.userToken
  /\ cc.pc # "idle" => fj.userToken = 0
  /\ ~fj.useClientCredentials => cc.pc = "idle"

\* C18: the first request carries the user token when there is one; a
\* client-credential token is asked for only when there is no user token or
\* the request with the user token failed or gave an empty body, and a
\* request carries it only after it was obtained; with
\* useClientCredentials === false none is ever asked for.
C18_ClientTokenIsFallback ==
  /\ (fj.userToken # 0 /\ fj.used # <<>>) => fj.used[1] = fj.userToken
  /\ cc.pc # "idle" =>
       fj.userToken = 0 \/ fj.userAttempt \in {"failed", "empty"}
  /\ Len(fj.used) <= 2
  /\ (fj.used # <<>> /\ fj.used[Len(fj.used)] # fj.userToken) =>
       cc.pc = "returned" /\ fj.used[Len(fj.used)] = cc.token
  /\ ~fj.useClientCredentials => cc.pc = "idle"

\* A call with a user token whose request failed went on with a newly
\* fetched client-credential token and returned.
C18_Witness ==
  /\ fj.pc = "returned"
  /\ fj.userToken # 0
  /\ fj.userAttempt = "failed"
  /\ fj.used = <<fj.userToken, cc.token>>
  /\ clientCredentialCache.token = cc.token

\* The range the words of the contract give for a text made of the parts
\* `in`.
DecadeStart(in) ==
  IF in.kind = "decade4" THEN in.a
  ELSE IF in.a <= 29 THEN 2000 + in.a ELSE 1900 + in.a

ClaimedYearRange(in) ==
  CASE in.kind = "range" -> [has |-> TRUE, from |-> in.a, to |-> in.b]
    [] in.kind = "none" -> [has |-> FALSE, from |-> 0, to |-> 0]
    [] OTHER ->
         LET d == DecadeStart(in)
         IN CASE in.modifier = "early" -> [has |-> TRUE, from |-> d, to |-> d + 2]
              [] in.modifier = "mid" -> [has |-> TRUE, from |-> d + 3, to |-> d + 6]
              [] in.modifier = "late" -> [has |-> TRUE, from |-> d + 7, to |-> d + 9]
              [] OTHER -> [has |-> TRUE, from |-> d, to |-> d + 9]

\* C19: once the extractor has read a text, its result is the explicit range
\* itself, the 10-year span of a 4-digit decade, the 20xx decade of a 2-digit
\* decade up to 29 and the 19xx decade of a larger one, the decade's first 3
\* years for early, years 4-7 for mid, last 3 years for late, and null for a
\* text with no year expression; and that result is the yearRange of the run:
\* every genre or year query the run builds carries it.
C19_YearRangeExtracted ==
  yearIn.read =>
    /\ yearOut = ClaimedYearRange(yearIn)
    /\ params.yearRange = yearOut
    /\ \A i \in 1..Len(queries) : queries[i].text = <<>> => queries[i].years = yearOut

\* "early 90s" gave {1990, 1992} and the run searched with it.
C19_Witness ==
  /\ yearIn.read /\ yearIn.kind = "decade2" /\ yearIn.a = 90
  /\ yearIn.modifier = "early" /\ yearIn.suffix = "s" /\ ~yearIn.tail
  /\ yearOut = [has |-> TRUE, from |-> 1990, to |-> 1992]
  /\ queries # <<>> /\ queries[1].years = yearOut
  /\ hist.issuedSearch # {}

\* The stages of one run, in the order the function's text gives them.
StageRank(p) ==
  CASE p = "start" -> 0
    [] p = "client" -> 1
    [] p = "primary" -> 2
    [] p = "search" -> 3
    [] p = "enrich" -> 4
    [] p = "score" -> 5
    [] OTHER -> 6

Issues(kind) == call' = Pending(kind) /\ call # Pending(kind)

\* C20: within one run the stages come in order and none is re-entered: a
\* top-track fetch is issued only while no search query and no genre batch
\* has been issued, and each artist's fetch once; a search query is issued
\* only after every top-track fetch has ended and before the genre batch, and
\* each query once; the genre batch is issued once, after the last query has
\* ended; and once scoring has started no catalog call is issued.
C20_StagesInOrder ==
  [][/\ pc' # pc => StageRank(pc') > StageRank(pc)
     /\ Issues("top") =>
          /\ ai \notin hist.issuedTop
          /\ hist.issuedSearch = {} /\ hist.genresAsked = <<>>
          /\ StageRank(pc') = 2
     /\ Issues("search") =>
          /\ qi \notin hist.issuedSearch
          /\ ai > Len(seeds) /\ call.st # "pending"
          /\ hist.genresAsked = <<>>
          /\ StageRank(pc') = 3
     /\ Issues("genres") =>
          /\ hist.genresAsked = <<>>
          /\ ai > Len(seeds) /\ call.st # "pending"
          /\ hist.issuedSearch # {} => qi > Len(queries)
          /\ StageRank(pc') = 4
     /\ StageRank(pc) >= 5 => call' = NoCall /\ hist' = hist]_vars

\* A run returned after top-track fetches, search queries and the genre batch.
C20_Witness ==
  /\ pc = "done"
  /\ hist.issuedTop # {} /\ hist.issuedSearch # {} /\ hist.genresAsked # <<>>
  /\ result # <<>>

\* C21: an artist search is issued only while fewer than 4 distinct artist
\* ids are held, and the loop leaves terms unprocessed only when 4 distinct
\* ids are held, whether the ids came from the cache or from the search and
\* when two terms resolve to the same artist.
C21_StopsAtFourDistinct ==
  [][/\ (rs'[1].pc = "search" /\ rs[1].pc # "search") =>
          Cardinality(Range(rs[1].artistSeeds)) < 4
     /\ (rs'[1].i > Len(rs[1].terms) /\ rs[1].i < Len(rs[1].terms)) =>
          Cardinality(Range(rs'[1].artistSeeds)) >= 4]_vars

\* C22: while the search source runs and after it has run, the pool holds at
\* most 2 x limit tracks, whatever the queries answer.
C22_PoolAtMostTwiceLimit ==
  (pc = "search" \/ hist.issuedSearch # {}) =>
    /\ Len(unique) <= 2 * limit
    /\ Len(candidates) <= 2 * limit

\* The search filled the pool to 2 x limit and left out a track it was given.
C22_Witness ==
  /\ pc = "done" /\ hist.issuedSearch # {}
  /\ Len(candidates) = 2 * limit
  /\ \E id \in hist.returnedSearch : id \notin Range(Ids(candidates))

\* C23: a search query is issued only when the primary source gave fewer
\* than limit tracks and while the pool is below 2 x limit; at most 6 are
\* issued; the queries are the genre queries, each with the year qualifier of
\* the request, and then the keyword queries, so no genre query is issued
\* after a keyword query.
C23_SearchQueriesBounded ==
  [][Issues("search") =>
       /\ Cardinality(hist.issuedSearch) < 6
       /\ Len(artistTracks) < limit
       /\ Len(unique) < 2 * limit
       /\ IF qi <= Len(params.genres)
          THEN queries[qi] = Query(params.genres[qi], params.yearRange, <<>>)
          ELSE queries[qi].genre = <<>>
       /\ queries[qi].genre # <<>> =>
            \A j \in hist.issuedSearch : queries[j].genre # <<>>]_vars

\* Six queries were issued, genre and keyword queries among them, for a
\* request that gives seven.
C23_Witness ==
  /\ Cardinality(hist.issuedSearch) = 6
  /\ Len(BuildQueries(params)) = 7
  /\ \E j \in hist.issuedSearch : queries[j].genre # <<>>
  /\ \E j \in hist.issuedSearch : queries[j].text # <<>>
  /\ params.yearRange.has

\* C24: once the genre stage is over, every artist the catalog lists for a
\* candidate of the pool was asked for in the genre batch, the batch holds at
\* most 50 ids, and when the batch was answered the genre map has an entry
\* for that artist.
C24_EveryArtistInBatch ==
  pc \in {"score", "done"} =>
    /\ Len(hist.genresAsked) <= 50
    /\ \A i \in 1..Len(candidates) :
         \A a \in CatalogArtistIdsOf(candidates[i].id) :
           /\ a \in Range(hist.genresAsked)
           /\ (~GenresFailed /\ artistGenresMap # EmptyMap) => a \in DOMAIN artistGenresMap

\* C25: when scoring starts, the genre term of every candidate is 0 if the
\* request names no genre; if it names rock, the term is 1.5 when a genre tag
\* of one of the candidate's artists is in the rock hint set and -0.7
\* otherwise.
C25_GenreAffinity ==
  pc = "score" =>
    \A i \in 1..Len(candidates) :
      LET g == genreScore(candidates[i], artistGenresMap)
      IN /\ params.genres = <<>> => g = 0
         /\ params.genres = <<GenreRock>> =>
              g = IF isRockish(candidates[i].artistIds, artistGenresMap)
                  THEN 1500 ELSE -700

\* The distance of a year outside [from, to].
YearDistance(y, yearRange) ==
  IF y < yearRange.from THEN yearRange.from - y
  ELSE IF y > yearRange.to THEN y - yearRange.to ELSE 0

\* C26: when scoring starts, with no year range the year term of every
\* candidate is 0.2; with a year range it is 0 for a track whose catalog
\* release year is unknown, 1.2 exactly for the tracks whose catalog release
\* year is in the range, and otherwise in [0, 1.2) and no larger for a track
\* further outside the range.
C26_YearProximity ==
  pc = "score" =>
    \A i \in 1..Len(candidates) :
      LET y == yearScore(candidates[i], params.yearRange)
          year == CatalogYearOf(candidates[i].id)
      IN IF ~params.yearRange.has THEN y = 200
         ELSE IF year = 0 THEN y = 0
         ELSE /\ y = 1200 <=> YearDistance(year, params.yearRange) = 0
              /\ y >= 0 /\ y <= 1200
              /\ \A j \in 1..Len(candidates) :
                   (/\ CatalogYearOf(candidates[j].id) # 0
                    /\ YearDistance(CatalogYearOf(candidates[j].id), params.yearRange)
                         >= YearDistance(year, params.yearRange))
                   => yearScore(candidates[j], params.yearRange) <= y

\* The candidates that match the rock hints, and the list returned when the
\* tracks of `pool` are the ones scored.
RockCandidates ==
  SelectSeq(candidates, LAMBDA t : isRockish(t.artistIds, artistGenresMap))

ResultOf(pool) ==
  FinalPick(Scored(pool, artistGenresMap, params.yearRange, params.keywords), limit).tracks

\* C27 as claimed: the tracks scored are the matching candidates exactly when
\* these are at least 60% of limit, and the whole pool otherwise.
C27_Original ==
  Finished =>
    result = ResultOf(IF 10 * Len(RockCandidates) >= 6 * limit
                      THEN RockCandidates ELSE candidates)

\* C27 as amended: the tracks scored are the matching candidates exactly when
\* these are at least max(10, floor(0.6 x limit)), and the whole pool
\* otherwise.
C27_PreFilterThreshold ==
  Finished =>
    /\ result = ResultOf(IF Len(RockCandidates) >= Max(10, (6 * limit) \div 10)
                         THEN RockCandidates ELSE candidates)
    /\ Len(RockCandidates) >= Max(10, (6 * limit) \div 10) =>
         \A i \in 1..Len(result) : isRockish(result[i].artistIds, artistGenresMap)

\* Both cases: ten matching candidates out of more were the only ones scored;
\* or the matching candidates were 60% of limit, fewer than ten, and a track
\* that does not match was returned.
C27_Witness ==
  /\ Finished /\ result # <<>>
  /\ \/ /\ Len(RockCandidates) >= 10 /\ Len(RockCandidates) < Len(candidates)
        /\ Len(result) = limit
     \/ /\ 10 * Len(RockCandidates) >= 6 * limit /\ Len(RockCandidates) < 10
        /\ \E i \in 1..Len(result) : ~isRockish(result[i].artistIds, artistGenresMap)

\* C28: when normalizeGenres has returned, every term of its input that is a
\* key of the alias table with an alias value in the seed vocabulary has that
\* value among the seeds and is not among the unmatched terms.
C28_AliasKeysResolve ==
  norm.pc = "returned" =>
    \A i \in 1..Len(genreInputs) :
      \A e \in 1..Len(GENRE_ALIAS_ENTRIES) :
        (/\ genreInputs[i] \in Range(GENRE_ALIAS_ENTRIES[e].keys)
         /\ SeedSetHas(GENRE_ALIAS_ENTRIES[e].value))
        => /\ GENRE_ALIAS_ENTRIES[e].value \in Range(norm.seedGenres)
           /\ genreInputs[i] \notin Range(norm.unmatched)

\* C29: once the seeds are collected they are at most 5 distinct artist ids,
\* each from one of the two lists, the ids of seedArtistIds before those that
\* only userTopArtistIds gives; and top tracks are fetched for no more than 5
\* artists.
C29_AtMostFiveSeeds ==
  pc \notin {"start", "client", "threw"} =>
    /\ Len(seeds) <= 5
    /\ Cardinality(Range(seeds)) = Len(seeds)
    /\ Range(seeds) \subseteq Range(params.seedArtistIds) \cup Range(params.userTopArtistIds)
    /\ \A i, j \in 1..Len(seeds) :
         (i < j /\ seeds[j] \in Range(params.seedArtistIds))
         => seeds[i] \in Range(params.seedArtistIds)
    /\ Cardinality(hist.issuedTop) <= 5

\* C30: no calendar day has more than one stored playlist of the schedule,
\* however the requests inside the schedule's window interleave.
C30_OnePlaylistPerDay ==
  \A d \in 1..MaxDays :
    Cardinality({i \in 1..Len(generatedPlaylists) : generatedPlaylists[i].day = d}) <= 1

\* C10 as claimed: a run that has not ended can always go on, also when the
\* catalog never answers the request in flight.
C10_NeverStuck ==
  outcome = "none" => ENABLED (PipelineStep \/ CatalogStep)

=============================================================================
